---- MODULE Spec2Model ----
(***************************************************************************)
(* ssfi: a word counter built from a blocking work queue (bdqueue.h), a    *)
(* striped hash counter (stripedhash.h) and a worker pool with a           *)
(* completion barrier (ssfi.cpp).                                          *)
(*                                                                         *)
(* One module, several specifications over the same variables:            *)
(*   SpecQueue / FairSpecQueue     unboundedQueue::enq / deq               *)
(*   SpecBarrier / FairSpecBarrier the workers' done counter and main      *)
(*   SpecTop                       stripedhashcounter::extract_top         *)
(*   SpecTable                     insert, remove, contains and resize     *)
(* Every specification leaves the variables of the other components at     *)
(* their initial values.                                                   *)
(***************************************************************************)
EXTENDS Integers, Sequences, FiniteSets, TLC

(***************************************************************************)
(* Bounds of the model.                                                    *)
(***************************************************************************)
\* number of producer threads of the queue model
NProducers == 2
\* number of consumer threads of the queue model
NConsumers == 2
\* largest number of enq calls of one producer
MaxItems == 2
\* largest number of deq calls of one consumer
MaxDeq == 2

\* largest number of worker threads (-N) of the completion barrier model
MaxThreads == 2
\* largest number of increment calls one worker makes before its sentinel
MaxWork == 1

\* number of slots of the tables extract_top is applied to
XSlots == 4
\* largest key and largest count of the elements in those tables
XMaxKey == 3
XMaxCount == 2
\* largest count argument of extract_top
MaxTop == 3

\* number of threads that call the table
NTableThreads == 2
\* number of distinct keys the threads use
NKeys == 4
\* constructor arguments of the table: size and mc
InitSize == 4
InitMC == 3
\* largest number of doublings of the table size
MaxDoublings == 1
\* largest number of table operations the threads start
MaxOps == 4
\* largest number of table operations a single caller starts
MaxSeqOps == 5
\* largest number of insert and remove calls concurrent writers start
MaxWriterOps == 5
\* largest number of file names the initiating thread enqueues
MaxFiles == 2
\* largest number of lines of a file
MaxLines == 2
\* largest number of increment, remove and extract_top calls the threads start
MaxLockOps == 5

Producers == 1..NProducers
Consumers == (NProducers + 1)..(NProducers + NConsumers)
QThreads == Producers \cup Consumers

Min(a, b) == IF a < b THEN a ELSE b

RECURSIVE SumOver(_, _)
\* the sum of f[x] for x in S
SumOver(f, S) ==
    IF S = {} THEN 0
    ELSE LET x == CHOOSE y \in S : TRUE IN f[x] + SumOver(f, S \ {x})

RECURSIVE SeqFilter(_, _)
\* the subsequence of s whose elements were enqueued by producer p
SeqFilter(s, p) ==
    IF s = <<>> THEN <<>>
    ELSE IF Head(s)[1] = p THEN <<Head(s)>> \o SeqFilter(Tail(s), p)
         ELSE SeqFilter(Tail(s), p)

IsPrefix(s, t) == Len(s) <= Len(t) /\ \A i \in 1..Len(s) : s[i] = t[i]

VARIABLES
    \* ---- unboundedQueue (bdqueue.h) ----
    qnext,      \* Node::next of every node allocated so far (0 is nullptr)
    qvalue,     \* Node::value of every node allocated so far
    qfreed,     \* the nodes that were deleted
    head,       \* unboundedQueue::head
    tail,       \* unboundedQueue::tail
    size,       \* unboundedQueue::size
    enqMtx,     \* owner of enqMtx (0: free)
    deqMtx,     \* owner of deqMtx (0: free)
    cvWaiters,  \* threads blocked in notemptyCV.wait
    qpc,        \* position of each queue thread
    qn,         \* local Node* n of enq / deq
    mustWake,   \* local mustWake of enq
    result,     \* local result of deq
    quota,      \* number of enq calls each producer makes
    sent,       \* number of enq calls of each producer that returned
    ncalls,     \* number of deq calls each consumer makes
    returned,   \* number of deq calls of each consumer that returned
    enqueued,   \* items in the order they were linked
    dequeued,   \* items in the order they were taken
    waited      \* <<c, k>>: the k-th deq call of consumer c blocked on notemptyCV

VARIABLES
    \* ---- worker pool and completion barrier (ssfi.cpp) ----
    nthreads,    \* main: nthreads, the number of workers started
    variant,     \* which of the two worker() bodies of ssfi.cpp runs
    donecount,   \* main: atomic<int> donecount
    donemtx,     \* owner of donemtx (-1: free)
    doneWaiters, \* threads blocked in donecv.wait
    bpc,         \* position of the initiating thread (0) and of each worker
    work,        \* increment calls each worker makes before it dequeues its sentinel
    earlyWake    \* the initiating thread returned from donecv.wait before donecount == nthreads

bvars == <<nthreads, variant, donecount, donemtx, doneWaiters, bpc, work, earlyWake>>

VARIABLES
    \* ---- extract_top applied to a table (stripedhash.h) and printed (ssfi.cpp) ----
    xtable,      \* what current->table holds, slot by slot
    xcount,      \* the argument count
    xresult,     \* the vector extract_top returns
    xprinted,    \* the lines main prints
    xpc          \* "call", "print", "done" or "crashed"

xvars == <<xtable, xcount, xresult, xprinted, xpc>>

VARIABLES
    \* ---- stripedhashcounter (stripedhash.h) ----
    gens,          \* every config built so far: table, locks, ha, hp, resizing, deleted
    cfg,           \* stripedhashcounter::cfg (index in gens)
    oldcfg,        \* stripedhashcounter::oldcfg (index in gens, 0: nullptr)
    ecount,        \* element::second of every element allocated so far
    efreed,        \* the elements that were deleted
    maxcollisions, \* stripedhashcounter::maxcollisions
    sizecap,       \* the largest table size a resize may build
    tpc,           \* position of each table thread
    tkey,          \* the argument key of the call in progress
    tcur,          \* local current of insert / remove / contains (0: none)
    ti,            \* local i, the probe number
    tslot,         \* local slot
    tmp,           \* the count read by e->second += 1
    tret,          \* value returned by the last call
    told,          \* resize: parameter old (0: none)
    tlocked,       \* resize: number of stripe locks of old acquired
    tnewsz,        \* resize: local newsz
    issued,        \* number of insert calls started, per key
    removals,      \* number of remove calls started, per key
    nops,          \* number of calls the threads may still start
    texp           \* count the key had in the current table, plus 1, when insert took effect

VARIABLES
    \* ---- the workers' loop over the queue (ssfi.cpp) ----
    nfiles,      \* number of file names nftw_process_file enqueues
    ppc,         \* position of each worker: "off", "run" or "exited"
    taken        \* <<c, n, item>>: the n-th deq call of worker c returned item

pvars == <<nfiles, ppc, taken>>

VARIABLES
    \* ---- a whole run of the program (ssfi.cpp) ----
    todo         \* the words of the files each worker dequeues, still to be read

svars == <<todo>>

VARIABLES
    \* ---- one worker reading the files it dequeues (ssfi.cpp) ----
    flist,       \* the files whose names main enqueues, in order
    fpc,         \* position of the worker in worker / worker_process_file
    frest,       \* the lines of infile that getline has not read yet
    fgood,       \* infile.good()
    fline,       \* the words of line the regex iterator has not reached yet
    fcalls       \* the words passed to increment for the file being processed

fvars == <<flist, fpc, frest, fgood, fline, fcalls>>

tvars == <<gens, cfg, oldcfg, ecount, efreed, maxcollisions, sizecap, tpc, tkey, tcur, ti,
           tslot, tmp, tret, told, tlocked, tnewsz, issued, removals, nops, texp>>

qvars == <<qnext, qvalue, qfreed, head, tail, size, enqMtx, deqMtx, cvWaiters,
           qpc, qn, mustWake, result, quota, sent, ncalls, returned,
           enqueued, dequeued, waited>>

vars == <<qvars, bvars, xvars, tvars, pvars, svars, fvars>>

\* what the steps of one component leave alone
nonQueue == <<bvars, xvars, tvars, pvars, svars, fvars>>
nonBarrier == <<qvars, xvars, tvars, pvars, svars, fvars>>
nonTop == <<qvars, bvars, tvars, pvars, svars, fvars>>
nonTable == <<qvars, bvars, xvars, pvars, svars, fvars>>
nonPool == <<bvars, xvars, tvars, svars, fvars>>

(***************************************************************************)
(* unboundedQueue                                                          *)
(***************************************************************************)
\* the value of a default constructed Node (the dummy head)
NoItem == <<0, 0>>

\* the k-th item of producer p
Item(p, k) == <<p, k>>

\* unboundedQueue::unboundedQueue
QueueInit ==
    /\ qnext = <<0>>
    /\ qvalue = <<NoItem>>
    /\ qfreed = {}
    /\ head = 1
    /\ tail = 1
    /\ size = 0
    /\ enqMtx = 0
    /\ deqMtx = 0
    /\ cvWaiters = {}
    /\ qn = [t \in QThreads |-> 0]
    /\ mustWake = [t \in Producers |-> FALSE]
    /\ result = [t \in Consumers |-> NoItem]
    /\ enqueued = <<>>
    /\ dequeued = <<>>
    /\ waited = {}
    /\ sent = [t \in Producers |-> 0]
    /\ returned = [t \in Consumers |-> 0]

QueueIdle ==
    /\ QueueInit
    /\ qpc = [t \in QThreads |-> "idle"]
    /\ quota = [t \in Producers |-> 0]
    /\ ncalls = [t \in Consumers |-> 0]

InitQueue ==
    /\ QueueInit
    /\ qpc = [t \in QThreads |-> "idle"]
    /\ quota \in [Producers -> 0..MaxItems]
    /\ ncalls \in [Consumers -> 1..MaxDeq]

\* enq, line 56: std::unique_lock<std::mutex> elg( enqMtx )
EnqLock(p) ==
    /\ qpc[p] = "idle"
    /\ sent[p] < quota[p]
    /\ enqMtx = 0
    /\ enqMtx' = p
    /\ qpc' = [qpc EXCEPT ![p] = "e_link"]
    /\ UNCHANGED nonQueue
    /\ UNCHANGED <<qnext, qvalue, qfreed, head, tail, size, deqMtx, cvWaiters,
                   qn, mustWake, result, quota, sent, ncalls, returned, enqueued, dequeued, waited>>

\* mutant of EnqLink: the new node is linked right behind the dummy head
EnqLinkFront(p) ==
    /\ qpc[p] = "e_link"
    /\ LET n == Len(qnext) + 1
           item == Item(p, sent[p] + 1)
       IN /\ qnext' = [Append(qnext, qnext[head]) EXCEPT ![head] = n]
          /\ qvalue' = Append(qvalue, item)
          /\ qn' = [qn EXCEPT ![p] = n]
          /\ enqueued' = Append(enqueued, item)
    /\ qpc' = [qpc EXCEPT ![p] = "e_tail"]
    /\ UNCHANGED nonQueue
    /\ UNCHANGED <<qfreed, head, tail, size, enqMtx, deqMtx, cvWaiters,
                   mustWake, result, quota, sent, ncalls, returned, dequeued, waited>>

\* enq, lines 58-59: Node* n = new Node(item); tail->next = n
EnqLink(p) ==
    /\ qpc[p] = "e_link"
    /\ LET n == Len(qnext) + 1
           item == Item(p, sent[p] + 1)
       IN /\ qnext' = [Append(qnext, 0) EXCEPT ![tail] = n]
          /\ qvalue' = Append(qvalue, item)
          /\ qn' = [qn EXCEPT ![p] = n]
          /\ enqueued' = Append(enqueued, item)
    /\ qpc' = [qpc EXCEPT ![p] = "e_tail"]
    /\ UNCHANGED nonQueue
    /\ UNCHANGED <<qfreed, head, tail, size, enqMtx, deqMtx, cvWaiters,
                   mustWake, result, quota, sent, ncalls, returned, dequeued, waited>>

\* enq, line 60: tail = n
EnqTail(p) ==
    /\ qpc[p] = "e_tail"
    /\ tail' = qn[p]
    /\ qpc' = [qpc EXCEPT ![p] = "e_size"]
    /\ UNCHANGED nonQueue
    /\ UNCHANGED <<qnext, qvalue, qfreed, head, size, enqMtx, deqMtx, cvWaiters,
                   qn, mustWake, result, quota, sent, ncalls, returned, enqueued, dequeued, waited>>

\* mutant of WakeNeeded: the value fetch_add returns is taken for the new size
WakeNeededNew(old) == old = 1

\* enq, line 63: the condition under which enq decides to notify
WakeNeeded(old) == old = 0

\* enq, lines 63-65: if ( size.fetch_add(1) == 0 ) mustWake = true
EnqSize(p) ==
    /\ qpc[p] = "e_size"
    /\ size' = size + 1
    /\ mustWake' = [mustWake EXCEPT ![p] = WakeNeeded(size)]
    /\ qpc' = [qpc EXCEPT ![p] = "e_unlock"]
    /\ UNCHANGED nonQueue
    /\ UNCHANGED <<qnext, qvalue, qfreed, head, tail, enqMtx, deqMtx, cvWaiters,
                   qn, result, quota, sent, ncalls, returned, enqueued, dequeued, waited>>

\* enq, lines 66-69: enqMtx is released; return unless mustWake
EnqUnlock(p) ==
    /\ qpc[p] = "e_unlock"
    /\ enqMtx' = 0
    /\ IF mustWake[p]
       THEN /\ qpc' = [qpc EXCEPT ![p] = "e_wake"]
            /\ UNCHANGED sent
       ELSE /\ qpc' = [qpc EXCEPT ![p] = "idle"]
            /\ sent' = [sent EXCEPT ![p] = @ + 1]
    /\ UNCHANGED nonQueue
    /\ UNCHANGED <<qnext, qvalue, qfreed, head, tail, size, deqMtx, cvWaiters,
                   qn, mustWake, result, quota, ncalls, returned, enqueued,
                   dequeued, waited>>

\* enq, line 70: std::unique_lock<std::mutex> dlg( deqMtx )
EnqWakeLock(p) ==
    /\ qpc[p] = "e_wake"
    /\ deqMtx = 0
    /\ deqMtx' = p
    /\ qpc' = [qpc EXCEPT ![p] = "e_notify"]
    /\ UNCHANGED nonQueue
    /\ UNCHANGED <<qnext, qvalue, qfreed, head, tail, size, enqMtx, cvWaiters,
                   qn, mustWake, result, quota, sent, ncalls, returned, enqueued, dequeued, waited>>

\* enq, lines 71-73: notemptyCV.notify_all(); deqMtx is released; return
EnqNotify(p) ==
    /\ qpc[p] = "e_notify"
    /\ qpc' = [t \in QThreads |->
                 IF t = p THEN "idle"
                 ELSE IF t \in cvWaiters THEN "d_relock" ELSE qpc[t]]
    /\ cvWaiters' = {}
    /\ deqMtx' = 0
    /\ mustWake' = [mustWake EXCEPT ![p] = FALSE]
    /\ sent' = [sent EXCEPT ![p] = @ + 1]
    /\ UNCHANGED nonQueue
    /\ UNCHANGED <<qnext, qvalue, qfreed, head, tail, size, enqMtx,
                   qn, result, quota, ncalls, returned, enqueued, dequeued,
                   waited>>

\* deq, line 82: std::unique_lock<std::mutex> dlg( deqMtx )
DeqLock(c) ==
    /\ qpc[c] = "idle"
    /\ returned[c] < ncalls[c]
    /\ deqMtx = 0
    /\ deqMtx' = c
    /\ qpc' = [qpc EXCEPT ![c] = "d_check"]
    /\ UNCHANGED nonQueue
    /\ UNCHANGED <<qnext, qvalue, qfreed, head, tail, size, enqMtx, cvWaiters,
                   qn, mustWake, result, quota, sent, ncalls, returned, enqueued, dequeued, waited>>

\* deq, line 85: the condition under which deq waits
MustWait(sz) == sz = 0

\* deq, lines 85-86: while( size.load() == 0 ) notemptyCV.wait(dlg)
\* (wait releases deqMtx and blocks)
DeqCheck(c) ==
    /\ qpc[c] = "d_check"
    /\ IF MustWait(size)
       THEN /\ deqMtx' = 0
            /\ cvWaiters' = cvWaiters \cup {c}
            /\ waited' = waited \cup {<<c, returned[c] + 1>>}
            /\ qpc' = [qpc EXCEPT ![c] = "d_wait"]
       ELSE /\ qpc' = [qpc EXCEPT ![c] = "d_next"]
            /\ UNCHANGED <<deqMtx, cvWaiters, waited>>
    /\ UNCHANGED nonQueue
    /\ UNCHANGED <<qnext, qvalue, qfreed, head, tail, size, enqMtx,
                   qn, mustWake, result, quota, sent, ncalls, returned,
                   enqueued, dequeued>>

\* deq, line 86: condition_variable::wait may return without a notification
DeqSpuriousWake(c) ==
    /\ qpc[c] = "d_wait"
    /\ c \in cvWaiters
    /\ cvWaiters' = cvWaiters \ {c}
    /\ qpc' = [qpc EXCEPT ![c] = "d_relock"]
    /\ UNCHANGED nonQueue
    /\ UNCHANGED <<qnext, qvalue, qfreed, head, tail, size, enqMtx, deqMtx,
                   qn, mustWake, result, quota, sent, ncalls, returned, enqueued, dequeued, waited>>

\* mutant of DeqRelock: a woken wait goes on without testing size again
DeqRelockNoCheck(c) ==
    /\ qpc[c] = "d_relock"
    /\ deqMtx = 0
    /\ deqMtx' = c
    /\ qpc' = [qpc EXCEPT ![c] = "d_next"]
    /\ UNCHANGED nonQueue
    /\ UNCHANGED <<qnext, qvalue, qfreed, head, tail, size, enqMtx, cvWaiters,
                   qn, mustWake, result, quota, sent, ncalls, returned, enqueued, dequeued, waited>>

\* deq, line 86: a woken wait re-acquires deqMtx before it returns
DeqRelock(c) ==
    /\ qpc[c] = "d_relock"
    /\ deqMtx = 0
    /\ deqMtx' = c
    /\ qpc' = [qpc EXCEPT ![c] = "d_check"]
    /\ UNCHANGED nonQueue
    /\ UNCHANGED <<qnext, qvalue, qfreed, head, tail, size, enqMtx, cvWaiters,
                   qn, mustWake, result, quota, sent, ncalls, returned, enqueued, dequeued, waited>>

\* deq, line 88: Node* n = head->next
DeqNext(c) ==
    /\ qpc[c] = "d_next"
    /\ qn' = [qn EXCEPT ![c] = qnext[head]]
    /\ qpc' = [qpc EXCEPT ![c] = "d_dec"]
    /\ UNCHANGED nonQueue
    /\ UNCHANGED <<qnext, qvalue, qfreed, head, tail, size, enqMtx, deqMtx,
                   cvWaiters, mustWake, result, quota, sent, ncalls, returned, enqueued, dequeued,
                   waited>>

\* mutant of DeqDec: the counter is left as it is
DeqDecNone(c) ==
    /\ qpc[c] = "d_dec"
    /\ qpc' = [qpc EXCEPT ![c] = "d_move"]
    /\ UNCHANGED nonQueue
    /\ UNCHANGED <<qnext, qvalue, qfreed, head, tail, size, enqMtx, deqMtx, cvWaiters,
                   qn, mustWake, result, quota, sent, ncalls, returned, enqueued, dequeued, waited>>

\* deq, line 89: size.fetch_add(-1)
DeqDec(c) ==
    /\ qpc[c] = "d_dec"
    /\ size' = size - 1
    /\ qpc' = [qpc EXCEPT ![c] = "d_move"]
    /\ UNCHANGED nonQueue
    /\ UNCHANGED <<qnext, qvalue, qfreed, head, tail, enqMtx, deqMtx, cvWaiters,
                   qn, mustWake, result, quota, sent, ncalls, returned, enqueued, dequeued, waited>>

\* n->value as deq reads it (a null n has no value)
NodeValue(n) == IF n = 0 THEN NoItem ELSE qvalue[n]

\* deq, line 90: result = std::move(n->value)
DeqMove(c) ==
    /\ qpc[c] = "d_move"
    /\ result' = [result EXCEPT ![c] = NodeValue(qn[c])]
    /\ dequeued' = Append(dequeued, NodeValue(qn[c]))
    /\ qpc' = [qpc EXCEPT ![c] = "d_free"]
    /\ UNCHANGED nonQueue
    /\ UNCHANGED <<qnext, qvalue, qfreed, head, tail, size, enqMtx, deqMtx,
                   cvWaiters, qn, mustWake, quota, sent, ncalls, returned, enqueued, waited>>

\* mutant of DeqFree: the node taken is deleted instead of the old dummy head
DeqFreeTaken(c) ==
    /\ qpc[c] = "d_free"
    /\ qfreed' = qfreed \cup {qn[c]}
    /\ qpc' = [qpc EXCEPT ![c] = "d_head"]
    /\ UNCHANGED nonQueue
    /\ UNCHANGED <<qnext, qvalue, head, tail, size, enqMtx, deqMtx, cvWaiters,
                   qn, mustWake, result, quota, sent, ncalls, returned, enqueued, dequeued, waited>>

\* deq, line 91: delete head
DeqFree(c) ==
    /\ qpc[c] = "d_free"
    /\ qfreed' = qfreed \cup {head}
    /\ qpc' = [qpc EXCEPT ![c] = "d_head"]
    /\ UNCHANGED nonQueue
    /\ UNCHANGED <<qnext, qvalue, head, tail, size, enqMtx, deqMtx, cvWaiters,
                   qn, mustWake, result, quota, sent, ncalls, returned, enqueued, dequeued, waited>>

\* mutant of DeqHead: head is not advanced
DeqHeadStay(c) ==
    /\ qpc[c] = "d_head"
    /\ deqMtx' = 0
    /\ returned' = [returned EXCEPT ![c] = @ + 1]
    /\ qpc' = [qpc EXCEPT ![c] = "idle"]
    /\ UNCHANGED nonQueue
    /\ UNCHANGED <<qnext, qvalue, qfreed, head, tail, size, enqMtx, cvWaiters,
                   qn, mustWake, result, quota, sent, ncalls, enqueued,
                   dequeued, waited>>

\* deq, lines 92-94: head = n; deqMtx is released; return result
DeqHead(c) ==
    /\ qpc[c] = "d_head"
    /\ head' = qn[c]
    /\ deqMtx' = 0
    /\ returned' = [returned EXCEPT ![c] = @ + 1]
    /\ qpc' = [qpc EXCEPT ![c] = "idle"]
    /\ UNCHANGED nonQueue
    /\ UNCHANGED <<qnext, qvalue, qfreed, tail, size, enqMtx, cvWaiters,
                   qn, mustWake, result, quota, sent, ncalls, enqueued,
                   dequeued, waited>>

Enq(p) ==
    \/ EnqLock(p)
    \/ EnqLink(p)
    \/ EnqTail(p)
    \/ EnqSize(p)
    \/ EnqUnlock(p)
    \/ EnqWakeLock(p)
    \/ EnqNotify(p)

Deq(c) ==
    \/ DeqLock(c)
    \/ DeqCheck(c)
    \/ DeqRelock(c)
    \/ DeqNext(c)
    \/ DeqDec(c)
    \/ DeqMove(c)
    \/ DeqFree(c)
    \/ DeqHead(c)

NextQueue ==
    \/ \E p \in Producers : Enq(p)
    \/ \E c \in Consumers : Deq(c)
    \/ \E c \in Consumers : DeqSpuriousWake(c)

(***************************************************************************)
(* The workers' loop over the queue (ssfi.cpp)                             *)
(***************************************************************************)
\* main is the only thread that calls enq (lines 104-114)
Initiator == 1

\* mutant of SentinelCount: one sentinel too few
SentinelCountShort == NConsumers - 1

\* main, lines 112-114: one bq.enq( string{""} ) per worker
SentinelCount == NConsumers

\* worker, line 155: s.length() > 0 fails for the empty strings main enqueues
\* after the nfiles file names, and for a default constructed string
IsSentinel(item) == item = NoItem \/ item[2] > nfiles

PoolIdle ==
    /\ nfiles = 0
    /\ ppc = [c \in Consumers |-> "off"]
    /\ taken = {}

\* main, lines 98-114: the workers are started, each about to make its first
\* deq call (line 154); main is about to enqueue nfiles names and the sentinels
InitPool ==
    /\ QueueInit
    /\ qpc = [t \in QThreads |-> "idle"]
    /\ nfiles \in 0..MaxFiles
    /\ quota = [p \in Producers |-> IF p = Initiator THEN nfiles + SentinelCount ELSE 0]
    /\ ncalls = [c \in Consumers |-> 1]
    /\ ppc = [c \in Consumers |-> "run"]
    /\ taken = {}

\* worker, lines 155-164: deq returned a name: worker_process_file, then the
\* next s = q->deq()
WorkerProcess(c) ==
    /\ ppc[c] = "run"
    /\ qpc[c] = "idle"
    /\ returned[c] = ncalls[c]
    /\ ~IsSentinel(result[c])
    /\ taken' = taken \cup {<<c, returned[c], result[c]>>}
    /\ ncalls' = [ncalls EXCEPT ![c] = @ + 1]
    /\ UNCHANGED nonPool
    /\ UNCHANGED <<nfiles, ppc, qnext, qvalue, qfreed, head, tail, size, enqMtx,
                   deqMtx, cvWaiters, qpc, qn, mustWake, result, quota, sent,
                   returned, enqueued, dequeued, waited>>

\* worker, lines 155 and 167: deq returned an empty string: the loop ends
WorkerLeave(c) ==
    /\ ppc[c] = "run"
    /\ qpc[c] = "idle"
    /\ returned[c] = ncalls[c]
    /\ IsSentinel(result[c])
    /\ taken' = taken \cup {<<c, returned[c], result[c]>>}
    /\ ppc' = [ppc EXCEPT ![c] = "exited"]
    /\ UNCHANGED nonPool
    /\ UNCHANGED <<nfiles, qnext, qvalue, qfreed, head, tail, size, enqMtx,
                   deqMtx, cvWaiters, qpc, qn, mustWake, result, quota, sent,
                   ncalls, returned, enqueued, dequeued, waited>>

WorkerLoop(c) ==
    \/ WorkerProcess(c)
    \/ WorkerLeave(c)

NextPool ==
    \/ NextQueue
    \/ \E c \in Consumers : WorkerLoop(c)

(***************************************************************************)
(* Worker pool and completion barrier (ssfi.cpp)                           *)
(***************************************************************************)
Main == 0
AllWorkers == 1..MaxThreads
Workers == 1..nthreads

BarrierIdle ==
    /\ nthreads = 0
    /\ variant = 1
    /\ donecount = 0
    /\ donemtx = -1
    /\ doneWaiters = {}
    /\ bpc = [t \in {Main} \cup AllWorkers |-> "off"]
    /\ work = [t \in AllWorkers |-> 0]
    /\ earlyWake = FALSE

\* main, lines 62 and 98-114: donecount(0), the workers are started and the
\* sentinels enqueued; the initiating thread is about to evaluate line 118
InitBarrier ==
    /\ nthreads \in 1..MaxThreads
    /\ variant \in {1, 2}
    /\ donecount = 0
    /\ donemtx = -1
    /\ doneWaiters = {}
    /\ bpc = [t \in {Main} \cup AllWorkers |->
                IF t = Main THEN "m_check" ELSE IF t <= nthreads THEN "loop" ELSE "off"]
    /\ work \in [AllWorkers -> 0..MaxWork]
    /\ \A t \in AllWorkers : t > nthreads => work[t] = 0
    /\ earlyWake = FALSE

\* worker, lines 155-161 (428-431): the item dequeued is a file; a call of
\* increment on the shared table is in progress
WorkerCall(w) ==
    /\ bpc[w] = "loop"
    /\ work[w] > 0
    /\ bpc' = [bpc EXCEPT ![w] = "inc"]
    /\ UNCHANGED nonBarrier
    /\ UNCHANGED <<nthreads, variant, donecount, donemtx, doneWaiters, work, earlyWake>>

\* worker_process_file, line 218 (460): the increment call returns
WorkerReturn(w) ==
    /\ bpc[w] = "inc"
    /\ work' = [work EXCEPT ![w] = @ - 1]
    /\ bpc' = [bpc EXCEPT ![w] = "loop"]
    /\ UNCHANGED nonBarrier
    /\ UNCHANGED <<nthreads, variant, donecount, donemtx, doneWaiters, earlyWake>>

\* worker, line 155 (428): the item dequeued is the sentinel, the loop ends
WorkerExit(w) ==
    /\ bpc[w] = "loop"
    /\ work[w] = 0
    /\ bpc' = [bpc EXCEPT ![w] = IF variant = 1 THEN "w_lock" ELSE "w_add"]
    /\ UNCHANGED nonBarrier
    /\ UNCHANGED <<nthreads, variant, donecount, donemtx, doneWaiters, work, earlyWake>>

\* worker, line 168 (435): unique_lock<mutex> dlg(donemtx)
WorkerLock(w) ==
    /\ bpc[w] = "w_lock"
    /\ donemtx = -1
    /\ donemtx' = w
    /\ bpc' = [bpc EXCEPT ![w] = IF variant = 1 THEN "w_add" ELSE "w_notify"]
    /\ UNCHANGED nonBarrier
    /\ UNCHANGED <<nthreads, variant, donecount, doneWaiters, work, earlyWake>>

\* worker, line 177 (434): done->fetch_add(1)
WorkerAdd(w) ==
    /\ bpc[w] = "w_add"
    /\ donecount' = donecount + 1
    /\ bpc' = [bpc EXCEPT ![w] = IF variant = 1 THEN "w_notify" ELSE "w_lock"]
    /\ UNCHANGED nonBarrier
    /\ UNCHANGED <<nthreads, variant, donemtx, doneWaiters, work, earlyWake>>

\* worker, line 178 (436): donecv.notify_all()
WorkerNotify(w) ==
    /\ bpc[w] = "w_notify"
    /\ bpc' = [t \in {Main} \cup AllWorkers |->
                 IF t = w THEN "w_unlock"
                 ELSE IF t \in doneWaiters THEN "m_relock" ELSE bpc[t]]
    /\ doneWaiters' = {}
    /\ earlyWake' = (earlyWake \/ (Main \in doneWaiters /\ donecount < nthreads))
    /\ UNCHANGED nonBarrier
    /\ UNCHANGED <<nthreads, variant, donecount, donemtx, work>>

\* worker, line 180 (437): the function returns, dlg releases donemtx
WorkerUnlock(w) ==
    /\ bpc[w] = "w_unlock"
    /\ donemtx' = -1
    /\ bpc' = [bpc EXCEPT ![w] = "done"]
    /\ UNCHANGED nonBarrier
    /\ UNCHANGED <<nthreads, variant, donecount, doneWaiters, work, earlyWake>>

\* mutant of MustBlock: main waits only until the first worker is done
MustBlockFirst(dc, n) == dc = 0

\* main, line 118 (393): the loop condition donecount.load() < nthreads
MustBlock(dc, n) == dc < n

\* main, line 118 (393): while( donecount.load() < nthreads ); when the loop
\* ends main goes on to print_results / extract_top
MainCheck ==
    /\ bpc[Main] = "m_check"
    /\ bpc' = [bpc EXCEPT ![Main] =
                 IF MustBlock(donecount, nthreads) THEN "m_lock" ELSE "extract"]
    /\ UNCHANGED nonBarrier
    /\ UNCHANGED <<nthreads, variant, donecount, donemtx, doneWaiters, work, earlyWake>>

\* main, line 119 (394): unique_lock<mutex> lg( donemtx )
MainLock ==
    /\ bpc[Main] = "m_lock"
    /\ donemtx = -1
    /\ donemtx' = Main
    /\ bpc' = [bpc EXCEPT ![Main] = "m_enter"]
    /\ UNCHANGED nonBarrier
    /\ UNCHANGED <<nthreads, variant, donecount, doneWaiters, work, earlyWake>>

\* main, line 120 (395): donecv.wait( lg ) releases donemtx and blocks
MainWait ==
    /\ bpc[Main] = "m_enter"
    /\ donemtx' = -1
    /\ doneWaiters' = doneWaiters \cup {Main}
    /\ bpc' = [bpc EXCEPT ![Main] = "m_wait"]
    /\ UNCHANGED nonBarrier
    /\ UNCHANGED <<nthreads, variant, donecount, work, earlyWake>>

\* main, line 120 (395): condition_variable::wait may return without a notification
MainSpuriousWake ==
    /\ bpc[Main] = "m_wait"
    /\ Main \in doneWaiters
    /\ doneWaiters' = doneWaiters \ {Main}
    /\ earlyWake' = (earlyWake \/ donecount < nthreads)
    /\ bpc' = [bpc EXCEPT ![Main] = "m_relock"]
    /\ UNCHANGED nonBarrier
    /\ UNCHANGED <<nthreads, variant, donecount, donemtx, work>>

\* main, line 120 (395): a woken wait re-acquires donemtx before it returns
MainRelock ==
    /\ bpc[Main] = "m_relock"
    /\ donemtx = -1
    /\ donemtx' = Main
    /\ bpc' = [bpc EXCEPT ![Main] = "m_unlock"]
    /\ UNCHANGED nonBarrier
    /\ UNCHANGED <<nthreads, variant, donecount, doneWaiters, work, earlyWake>>

\* main, line 121 (396): end of the loop body, lg releases donemtx
MainUnlock ==
    /\ bpc[Main] = "m_unlock"
    /\ donemtx' = -1
    /\ bpc' = [bpc EXCEPT ![Main] = "m_check"]
    /\ UNCHANGED nonBarrier
    /\ UNCHANGED <<nthreads, variant, donecount, doneWaiters, work, earlyWake>>

Worker(w) ==
    \/ WorkerCall(w)
    \/ WorkerReturn(w)
    \/ WorkerExit(w)
    \/ WorkerLock(w)
    \/ WorkerAdd(w)
    \/ WorkerNotify(w)
    \/ WorkerUnlock(w)

MainThread ==
    \/ MainCheck
    \/ MainLock
    \/ MainWait
    \/ MainRelock
    \/ MainUnlock

NextBarrier ==
    \/ \E w \in AllWorkers : Worker(w)
    \/ MainThread
    \/ MainSpuriousWake

(***************************************************************************)
(* stripedhashcounter::extract_top                                         *)
(***************************************************************************)
\* a slot holding nullptr, a slot holding &sentinel, a slot holding an element
NullSlot == [kind |-> "null", key |-> 0, count |-> 0]
TombSlot == [kind |-> "tomb", key |-> 0, count |-> 0]
ElemSlot(k, c) == [kind |-> "elem", key |-> k, count |-> c]

\* line 40: element sentinel, a default constructed pair (empty key, count 0)
SentinelValue == <<0, 0>>

\* line 261: new std::vector<element>{ count, sentinel }
HeapInit(count) == [i \in 1..count |-> SentinelValue]

\* lines 276-278: the heap order; the front of the heap is an element that is
\* below no other element in this order
HeapLess(e1, e2) == e1[2] > e2[2] \/ (e1[2] = e2[2] /\ e1[1] < e2[1])

\* heap->front(): the position of the element the heap functions keep in front
FrontIndex(h) ==
    CHOOSE i \in 1..Len(h) :
       /\ \A j \in 1..Len(h) : ~HeapLess(h[i], h[j])
       /\ \A j \in 1..(i - 1) : HeapLess(h[j], h[i])

\* mutant of SkipElement: ties of the count are not broken by the key
SkipElementNoTie(it, front) == it[2] < front[2]

\* lines 272-274: an element that is below the front of the heap is skipped
SkipElement(it, front) ==
    it[2] < front[2] \/ (it[2] = front[2] /\ it[1] > front[1])

\* lines 275-285: pop_heap, pop_back, push_back( *it ), push_heap
ReplaceFront(h, it) ==
    LET f == FrontIndex(h)
    IN Append(SubSeq(h, 1, f - 1) \o SubSeq(h, f + 1, Len(h)), it)

RECURSIVE ScanTable(_, _, _)
\* lines 270-286: the loop over current->table, from slot i on
ScanTable(h, tbl, i) ==
    IF i > Len(tbl) THEN h
    ELSE IF tbl[i].kind # "elem" THEN ScanTable(h, tbl, i + 1)
    ELSE LET it == <<tbl[i].key, tbl[i].count>>
         IN IF SkipElement(it, h[FrontIndex(h)])
            THEN ScanTable(h, tbl, i + 1)
            ELSE ScanTable(ReplaceFront(h, it), tbl, i + 1)

\* lines 288-291: the order of the returned vector
DisplayLess(a, b) == IF a[2] = b[2] THEN a[1] < b[1] ELSE a[2] > b[2]

RECURSIVE SortInsert(_, _)
\* e put in its place in the sorted sequence s
SortInsert(s, e) ==
    IF s = <<>> THEN <<e>>
    ELSE IF DisplayLess(e, Head(s)) THEN <<e>> \o s
         ELSE <<Head(s)>> \o SortInsert(Tail(s), e)

RECURSIVE SortTop(_)
\* lines 287-292: std::sort of the collected elements
SortTop(h) == IF h = <<>> THEN <<>> ELSE SortInsert(SortTop(Tail(h)), Head(h))

\* lines 260-295: the vector extract_top returns for a table and a count >= 1,
\* or for a table without elements
ExtractResult(tbl, count) == SortTop(ScanTable(HeapInit(count), tbl, 1))

\* line 272: heap->front() of an empty vector is evaluated (undefined) when
\* count is 0 and the scan meets an element
FrontOfEmpty(tbl, count) ==
    count = 0 /\ \E i \in 1..Len(tbl) : tbl[i].kind = "elem"

XSlotValues ==
    {NullSlot, TombSlot} \cup {ElemSlot(k, c) : k \in 1..XMaxKey, c \in 1..XMaxCount}

TopIdle ==
    /\ xtable = <<>>
    /\ xcount = 0
    /\ xresult = <<>>
    /\ xprinted = <<>>
    /\ xpc = "off"

InitTop ==
    /\ xtable \in [1..XSlots -> XSlotValues]
    /\ xcount \in 0..MaxTop
    /\ xresult = <<>>
    /\ xprinted = <<>>
    /\ xpc = "call"

\* extract_top, lines 260-295, called by main (ssfi.cpp line 398); where the
\* code is undefined it either crashes or carries on with an empty vector
XExtract ==
    /\ xpc = "call"
    /\ IF FrontOfEmpty(xtable, xcount)
       THEN /\ xresult' = <<>>
            /\ xpc' \in {"crashed", "print"}
       ELSE /\ xresult' = ExtractResult(xtable, xcount)
            /\ xpc' = "print"
    /\ UNCHANGED nonTop
    /\ UNCHANGED <<xtable, xcount, xprinted>>

\* main, ssfi.cpp lines 399-401: one line "<first> : <second>" per entry
XPrint ==
    /\ xpc = "print"
    /\ xprinted' = xresult
    /\ xpc' = "done"
    /\ UNCHANGED nonTop
    /\ UNCHANGED <<xtable, xcount, xresult>>

NextTop ==
    \/ XExtract
    \/ XPrint

(***************************************************************************)
(* stripedhashcounter: state, hashing and probing                          *)
(***************************************************************************)
TableThreads == 1..NTableThreads

\* the keys the threads use: 1, 3, 5, ...
Keys == {2 * n - 1 : n \in 1..NKeys}

\* an element pointer is <<key, serial>>: the serial-th element allocated for
\* key; nullptr and &sentinel (line 40: key and count value initialised)
NullPtr == <<-1, 0>>
SentinelPtr == <<0, 0>>

\* e->first
KeyOf(e) == e[1]

\* the floor of the square root of n
ISqrt(n) == CHOOSE r \in 0..n : r * r <= n /\ (r + 1) * (r + 1) > n

\* line 50: locks( sqrt(sz) + 1 )
LockCount(sz) == ISqrt(sz) + 1

\* lines 299-301: hash_func for int keys: ha * i % hp
hash_func(key, ha, hp) == (ha * key) % hp

\* config::config, lines 50-54, with ha the number dist(g) returns
NewConfig(sz, ha) ==
    [table |-> [i \in 1..sz |-> NullPtr],
     locks |-> [i \in 1..LockCount(sz) |-> 0],
     ha |-> ha,
     hp |-> 2 * sz + 1,
     resizing |-> FALSE,
     deleted |-> {},
     alive |-> TRUE]

\* a config whose destructor has run
DeadConfig ==
    [table |-> <<>>, locks |-> <<>>, ha |-> 0, hp |-> 0, resizing |-> FALSE,
     deleted |-> {}, alive |-> FALSE]

\* line 51: uniform_int_distribution<int> dist(1,sz-1)
HashParams(sz) == 1..(sz - 1)

\* current->table.size()
SizeOf(g) == Len(g.table)

\* insert and remove, lines 194-198 and 233-235: the i-th slot probed,
\* (base + i * i) % size
ProbeSlot(g, key, i) == (hash_func(key, g.ha, g.hp) + i * i) % SizeOf(g)

RECURSIVE RunningSlot(_, _, _)
\* contains and resize_helper, lines 176-178 and 99-102: the i-th slot probed,
\* slot = (slot + i * i) % size starting from slot = hash_func(key)
RunningSlot(g, key, i) ==
    IF i = 0 THEN hash_func(key, g.ha, g.hp) % SizeOf(g)
    ELSE (RunningSlot(g, key, i - 1) + i * i) % SizeOf(g)

\* current->table.at(slot)
SlotAt(g, slot) == g.table[slot + 1]

\* current->locks[slot % current->locks.size()], as a position in locks
StripeOf(g, slot) == (slot % Len(g.locks)) + 1

\* lines 98, 206, 241, 271: it == nullptr || it == &sentinel
IsFree(e) == e = NullPtr \/ e = SentinelPtr

\* the pointer of the next element allocated for key
NewElement(key) == <<key, Cardinality({e \in DOMAIN ecount : KeyOf(e) = key}) + 1>>

RECURSIVE PlaceAll(_, _, _, _)
\* resize_helper, lines 97-114: the elements of the old table from slot idx
\* on are put in the new config g; <<>> when one of them collides
\* maxcollisions times (line 112: return nullptr)
PlaceAll(g, oldtable, idx, mc) ==
    LET From(new) ==
          IF idx > Len(oldtable) THEN new.table
          ELSE LET it == oldtable[idx]
               IN IF IsFree(it) THEN PlaceAll(new, oldtable, idx + 1, mc)
                  ELSE LET free == {i \in 0..(mc - 1) :
                                      SlotAt(new, RunningSlot(new, KeyOf(it), i)) = NullPtr}
                       IN IF free = {} THEN <<>>
                          ELSE LET i == CHOOSE j \in free : \A l \in free : j <= l
                                   slot == RunningSlot(new, KeyOf(it), i)
                               IN PlaceAll([new EXCEPT !.table[slot + 1] = it],
                                           oldtable, idx + 1, mc)
    IN \* the new config is worked out once, then the rest is placed in it
       CHOOSE tbl \in {From(new) : new \in {g}} : TRUE

\* resize_helper, lines 90-120: the table of the new config, <<>> for nullptr
resize_helper(old, newsz, ha, mc) == PlaceAll(NewConfig(newsz, ha), old.table, 1, mc)

\* the configs some shared_ptr still points to
Referenced(c, o, cur, old) ==
    {c, o} \cup {cur[t] : t \in TableThreads} \cup {old[t] : t \in TableThreads}

\* shared_ptr<config>: a config no shared_ptr points to any more is destroyed
Reclaim(gs, c, o, cur, old) ==
    [g \in 1..Len(gs) |->
       IF g \in Referenced(c, o, cur, old) THEN gs[g] ELSE DeadConfig]

\* config::~config, lines 56-61: the elements the destroyed configs delete
Deleted(gs, c, o, cur, old) ==
    UNION {gs[g].deleted : g \in (1..Len(gs)) \ Referenced(c, o, cur, old)}

\* the five-key run: the number of distinct keys inserted, the keys they are
\* drawn from and the doublings a resize may make
ScnKeys == 5
ScnPool == 7
ScnDoublings == 4
KeysB == 1..ScnPool

AllKeys == Keys \cup KeysB

\* stripedhashcounter::stripedhashcounter, lines 162-166
TableInit(sz, mc, n, d) ==
    /\ \E ha \in HashParams(sz) : gens = <<NewConfig(sz, ha)>>
    /\ cfg = 1
    /\ oldcfg = 0
    /\ ecount = (SentinelPtr :> 0)
    /\ efreed = {}
    /\ maxcollisions = mc
    /\ sizecap = sz * (2 ^ d)
    /\ tkey = [t \in TableThreads |-> 0]
    /\ tcur = [t \in TableThreads |-> 0]
    /\ ti = [t \in TableThreads |-> 0]
    /\ tslot = [t \in TableThreads |-> 0]
    /\ tmp = [t \in TableThreads |-> 0]
    /\ tret = [t \in TableThreads |-> 0]
    /\ told = [t \in TableThreads |-> 0]
    /\ tlocked = [t \in TableThreads |-> 0]
    /\ tnewsz = [t \in TableThreads |-> 0]
    /\ issued = [k \in AllKeys |-> 0]
    /\ removals = [k \in AllKeys |-> 0]
    /\ nops = n
    /\ texp = [t \in TableThreads |-> 0]

TableIdle ==
    /\ TableInit(2, 2, 0, 0)
    /\ tpc = [t \in TableThreads |-> "off"]

InitTable ==
    /\ TableInit(InitSize, InitMC, MaxOps, MaxDoublings)
    /\ tpc = [t \in TableThreads |-> "idle"]

InitTableWriters ==
    /\ TableInit(InitSize, InitMC, MaxWriterOps, MaxDoublings)
    /\ tpc = [t \in TableThreads |-> "idle"]

\* stripedhashcounter::stripedhashcounter, lines 162-166, with size = 2 and
\* mc = 2: two stripe locks, and the third distinct key calls resize
InitTableLocks ==
    /\ TableInit(2, 2, MaxLockOps, MaxDoublings)
    /\ tpc = [t \in TableThreads |-> "idle"]

InitTableSeq ==
    /\ TableInit(InitSize, InitMC, MaxSeqOps, MaxDoublings)
    /\ tpc = [t \in TableThreads |-> "idle"]

\* a call of thread t returns: its parameter key and its locals i and slot
\* are gone
Forget(t) ==
    /\ tkey' = [tkey EXCEPT ![t] = 0]
    /\ ti' = [ti EXCEPT ![t] = 0]
    /\ tslot' = [tslot EXCEPT ![t] = 0]

\* the count of key in the table of config g (0: no slot holds key)
StoredCount(g, key) ==
    LET es == {g.table[i] : i \in 1..Len(g.table)}
        ks == {e \in es : ~IsFree(e) /\ KeyOf(e) = key}
    IN IF ks = {} THEN 0 ELSE ecount[CHOOSE e \in ks : TRUE]

(***************************************************************************)
(* stripedhashcounter::insert and resize                                   *)
(***************************************************************************)
\* insert, lines 192-194: a call starts; std::shared_ptr<config> current = cfg
InsStart(t, key) ==
    /\ tpc[t] = "idle"
    /\ nops > 0
    /\ nops' = nops - 1
    /\ issued' = [issued EXCEPT ![key] = @ + 1]
    /\ tkey' = [tkey EXCEPT ![t] = key]
    /\ tcur' = [tcur EXCEPT ![t] = cfg]
    /\ ti' = [ti EXCEPT ![t] = 0]
    /\ texp' = [texp EXCEPT ![t] = 0]
    /\ tpc' = [tpc EXCEPT ![t] = "ins_lock"]
    /\ UNCHANGED nonTable
    /\ UNCHANGED <<gens, cfg, oldcfg, ecount, efreed, maxcollisions, sizecap, tslot, tmp,
                   tret, told, tlocked, tnewsz, removals>>

\* insert, lines 198-199: slot = (base + i * i) % size; lock_guard lg( locks[...] )
InsLock(t) ==
    /\ tpc[t] = "ins_lock"
    /\ LET g == gens[tcur[t]]
           slot == ProbeSlot(g, tkey[t], ti[t])
       IN /\ g.locks[StripeOf(g, slot)] = 0
          /\ gens' = [gens EXCEPT ![tcur[t]].locks[StripeOf(g, slot)] = t]
          /\ tslot' = [tslot EXCEPT ![t] = slot]
    /\ tpc' = [tpc EXCEPT ![t] = "ins_slot"]
    /\ UNCHANGED nonTable
    /\ UNCHANGED <<cfg, oldcfg, ecount, efreed, maxcollisions, sizecap, tkey, tcur, ti,
                   tmp, tret, told, tlocked, tnewsz, issued, removals, nops, texp>>

\* a test that always sends the call back to retry
StaleAlways(g) == TRUE

\* insert and remove, lines 202 and 237: the test that sends the call back to
\* retry; resize, lines 128 and 136: the test that makes resize return
Stale(g) == g.resizing

\* insert, lines 202-221, under the stripe lock: retry when the config is
\* being resized; a free slot gets a new element; a slot with the key goes on
\* to the increment; any other slot ends the probe (lg is released)
InsSlot(t) ==
    /\ tpc[t] = "ins_slot"
    /\ LET c == tcur[t]
           g == gens[c]
           slot == tslot[t]
           e == SlotAt(g, slot)
           unlocked == [gens EXCEPT ![c].locks[StripeOf(g, slot)] = 0]
       IN IF Stale(g)
          THEN \* line 202: goto retry (lg and current are released)
               /\ tcur' = [tcur EXCEPT ![t] = 0]
               /\ gens' = Reclaim(unlocked, cfg, oldcfg, tcur', told)
               /\ efreed' = efreed \cup Deleted(unlocked, cfg, oldcfg, tcur', told)
               /\ tpc' = [tpc EXCEPT ![t] = "ins_retry"]
               /\ UNCHANGED <<ecount, tkey, ti, tslot, tmp, tret, texp>>
          ELSE IF IsFree(e)
          THEN \* lines 206-210: new element( key, 1 ); return 1
               /\ ecount' = ecount @@ (NewElement(tkey[t]) :> 1)
               /\ tcur' = [tcur EXCEPT ![t] = 0]
               /\ gens' = Reclaim([unlocked EXCEPT ![c].table[slot + 1] = NewElement(tkey[t])],
                                  cfg, oldcfg, tcur', told)
               /\ efreed' = efreed \cup Deleted(unlocked, cfg, oldcfg, tcur', told)
               /\ tret' = [tret EXCEPT ![t] = 1]
               /\ texp' = [texp EXCEPT ![t] = StoredCount(gens[cfg], tkey[t]) + 1]
               /\ tpc' = [tpc EXCEPT ![t] = "idle"]
               /\ Forget(t)
               /\ UNCHANGED tmp
          ELSE IF KeyOf(e) = tkey[t]
          THEN \* lines 213-215: e->second += 1 reads the count
               /\ tmp' = [tmp EXCEPT ![t] = ecount[e]]
               /\ texp' = [texp EXCEPT ![t] = StoredCount(gens[cfg], tkey[t]) + 1]
               /\ tpc' = [tpc EXCEPT ![t] = "ins_add"]
               /\ UNCHANGED <<gens, efreed, ecount, tcur, tkey, ti, tslot, tret>>
          ELSE \* line 221: next probe, or line 223 after maxcollisions probes
               /\ gens' = unlocked
               /\ ti' = [ti EXCEPT ![t] = @ + 1]
               /\ tpc' = [tpc EXCEPT ![t] =
                            IF ti[t] + 1 < maxcollisions THEN "ins_lock" ELSE "rs_call"]
               /\ tkey' = tkey
               /\ tslot' = tslot
               /\ UNCHANGED <<efreed, ecount, tcur, tmp, tret, texp>>
    /\ UNCHANGED nonTable
    /\ UNCHANGED <<cfg, oldcfg, maxcollisions, sizecap, told, tlocked, tnewsz,
                   issued, removals, nops>>

\* insert, lines 215-216: e->second += 1 writes the count; return e->second
InsAdd(t) ==
    /\ tpc[t] = "ins_add"
    /\ LET c == tcur[t]
           g == gens[c]
           e == SlotAt(g, tslot[t])
           unlocked == [gens EXCEPT ![c].locks[StripeOf(g, tslot[t])] = 0]
       IN /\ ecount' = [ecount EXCEPT ![e] = tmp[t] + 1]
          /\ tret' = [tret EXCEPT ![t] = tmp[t] + 1]
          /\ tcur' = [tcur EXCEPT ![t] = 0]
          /\ gens' = Reclaim(unlocked, cfg, oldcfg, tcur', told)
          /\ efreed' = efreed \cup Deleted(unlocked, cfg, oldcfg, tcur', told)
    /\ tpc' = [tpc EXCEPT ![t] = "idle"]
    /\ Forget(t)
    /\ tmp' = [tmp EXCEPT ![t] = 0]
    /\ UNCHANGED nonTable
    /\ UNCHANGED <<cfg, oldcfg, maxcollisions, sizecap, told, tlocked,
                   tnewsz, issued, removals, nops, texp>>

\* insert, lines 192-193, after goto retry or after resize returned: the next
\* round of while( true ) starts with current = cfg
InsRetry(t) ==
    /\ tpc[t] = "ins_retry"
    /\ tcur' = [tcur EXCEPT ![t] = cfg]
    /\ ti' = [ti EXCEPT ![t] = 0]
    /\ tpc' = [tpc EXCEPT ![t] = "ins_lock"]
    /\ UNCHANGED nonTable
    /\ UNCHANGED <<gens, cfg, oldcfg, ecount, efreed, maxcollisions, sizecap, tkey, tslot,
                   tmp, tret, told, tlocked, tnewsz, issued, removals, nops, texp>>

\* insert, line 223, and resize, lines 122-128: resize(cfg) is called; old and
\* current are the config cfg points to now
RsCall(t) ==
    /\ tpc[t] = "rs_call"
    /\ IF Stale(gens[cfg])
       THEN \* line 128: return; insert starts over
            /\ tcur' = [tcur EXCEPT ![t] = 0]
            /\ gens' = Reclaim(gens, cfg, oldcfg, tcur', told)
            /\ efreed' = efreed \cup Deleted(gens, cfg, oldcfg, tcur', told)
            /\ tpc' = [tpc EXCEPT ![t] = "ins_retry"]
            /\ UNCHANGED <<told, tlocked, tnewsz>>
       ELSE /\ told' = [told EXCEPT ![t] = cfg]
            /\ tnewsz' = [tnewsz EXCEPT ![t] = SizeOf(gens[cfg])]
            /\ tlocked' = [tlocked EXCEPT ![t] = 0]
            /\ tpc' = [tpc EXCEPT ![t] = "rs_lock"]
            /\ UNCHANGED <<gens, efreed, tcur>>
    /\ UNCHANGED nonTable
    /\ UNCHANGED <<cfg, oldcfg, ecount, maxcollisions, sizecap, tkey, ti, tslot, tmp, tret,
                   issued, removals, nops, texp>>

\* resize, lines 133-135: lgs.emplace_back( current->locks[i] ), one lock a step
RsLock(t) ==
    /\ tpc[t] = "rs_lock"
    /\ LET g == gens[told[t]]
           l == tlocked[t] + 1
       IN /\ g.locks[l] = 0
          /\ gens' = [gens EXCEPT ![told[t]].locks[l] = t]
          /\ tlocked' = [tlocked EXCEPT ![t] = l]
          /\ tpc' = [tpc EXCEPT ![t] = IF l = Len(g.locks) THEN "rs_grow" ELSE "rs_lock"]
    /\ UNCHANGED nonTable
    /\ UNCHANGED <<cfg, oldcfg, ecount, efreed, maxcollisions, sizecap, tkey, tcur, ti, tslot,
                   tmp, tret, told, tnewsz, issued, removals, nops, texp>>

\* the locks of config g that thread t holds are released
Unlock(g, t) == [g EXCEPT !.locks = [l \in 1..Len(g.locks) |-> IF g.locks[l] = t THEN 0 ELSE g.locks[l]]]

\* resize, lines 136-145: return when old is marked; otherwise one round of
\* the loop: newsz *= 2 and resize_helper; when it succeeds the new config is
\* published (oldcfg = old; cfg = newcfg), the locks are released and insert
\* starts over
RsGrow(t) ==
    /\ tpc[t] = "rs_grow"
    /\ LET o == told[t]
           released == [gens EXCEPT ![o] = Unlock(gens[o], t)]
       IN IF Stale(gens[o])
          THEN \* line 136: return
               /\ told' = [told EXCEPT ![t] = 0]
               /\ tcur' = [tcur EXCEPT ![t] = 0]
               /\ gens' = Reclaim(released, cfg, oldcfg, tcur', told')
               /\ efreed' = efreed \cup Deleted(released, cfg, oldcfg, tcur', told')
               /\ tlocked' = [tlocked EXCEPT ![t] = 0]
               /\ tnewsz' = [tnewsz EXCEPT ![t] = 0]
               /\ tpc' = [tpc EXCEPT ![t] = "ins_retry"]
               /\ UNCHANGED <<cfg, oldcfg>>
          ELSE /\ 2 * tnewsz[t] <= sizecap
               /\ \E ha \in HashParams(2 * tnewsz[t]) :
                    LET newsz == 2 * tnewsz[t]
                        tbl == resize_helper(gens[o], newsz, ha, maxcollisions)
                    IN IF tbl = <<>>
                       THEN \* line 142: newcfg == nullptr, next round
                            /\ tnewsz' = [tnewsz EXCEPT ![t] = newsz]
                            /\ UNCHANGED <<gens, efreed, cfg, oldcfg, tcur, told,
                                           tlocked, tpc>>
                       ELSE \* lines 144-145 and the return to insert
                            /\ oldcfg' = o
                            /\ cfg' = Len(gens) + 1
                            /\ told' = [told EXCEPT ![t] = 0]
                            /\ tcur' = [tcur EXCEPT ![t] = 0]
                            /\ gens' = Reclaim(Append(released,
                                                  [NewConfig(newsz, ha) EXCEPT !.table = tbl]),
                                               cfg', oldcfg', tcur', told')
                            /\ efreed' = efreed \cup Deleted(released, cfg', oldcfg', tcur', told')
                            /\ tlocked' = [tlocked EXCEPT ![t] = 0]
                            /\ tnewsz' = [tnewsz EXCEPT ![t] = 0]
                            /\ tpc' = [tpc EXCEPT ![t] = "ins_retry"]
    /\ UNCHANGED nonTable
    /\ UNCHANGED <<ecount, maxcollisions, sizecap, tkey, ti, tslot, tmp, tret, issued,
                   removals, nops, texp>>

(***************************************************************************)
(* stripedhashcounter::remove and contains                                 *)
(***************************************************************************)
\* remove, lines 231-233: a call starts; std::shared_ptr<config> current = cfg
RemStart(t, key) ==
    /\ tpc[t] = "idle"
    /\ nops > 0
    /\ nops' = nops - 1
    /\ removals' = [removals EXCEPT ![key] = @ + 1]
    /\ tkey' = [tkey EXCEPT ![t] = key]
    /\ tcur' = [tcur EXCEPT ![t] = cfg]
    /\ ti' = [ti EXCEPT ![t] = 0]
    /\ texp' = [texp EXCEPT ![t] = 0]
    /\ tpc' = [tpc EXCEPT ![t] = "rem_lock"]
    /\ UNCHANGED nonTable
    /\ UNCHANGED <<gens, cfg, oldcfg, ecount, efreed, maxcollisions, sizecap, tslot, tmp,
                   tret, told, tlocked, tnewsz, issued>>

\* remove, lines 235-236: slot = (base + i * i) % size; lock_guard lg( locks[...] )
RemLock(t) ==
    /\ tpc[t] = "rem_lock"
    /\ LET g == gens[tcur[t]]
           slot == ProbeSlot(g, tkey[t], ti[t])
       IN /\ g.locks[StripeOf(g, slot)] = 0
          /\ gens' = [gens EXCEPT ![tcur[t]].locks[StripeOf(g, slot)] = t]
          /\ tslot' = [tslot EXCEPT ![t] = slot]
    /\ tpc' = [tpc EXCEPT ![t] = "rem_slot"]
    /\ UNCHANGED nonTable
    /\ UNCHANGED <<cfg, oldcfg, ecount, efreed, maxcollisions, sizecap, tkey, tcur, ti,
                   tmp, tret, told, tlocked, tnewsz, issued, removals, nops, texp>>

\* remove, lines 237-253, under the stripe lock: retry when the config is
\* being resized; return 0 at a free slot; a slot with the key gets &sentinel
\* and its element goes to deleted; after maxcollisions other keys the outer
\* while( true ) starts its next round
RemSlot(t) ==
    /\ tpc[t] = "rem_slot"
    /\ LET c == tcur[t]
           g == gens[c]
           slot == tslot[t]
           e == SlotAt(g, slot)
           unlocked == [gens EXCEPT ![c].locks[StripeOf(g, slot)] = 0]
       IN IF Stale(g)
          THEN \* line 237: goto retry
               /\ tcur' = [tcur EXCEPT ![t] = 0]
               /\ gens' = Reclaim(unlocked, cfg, oldcfg, tcur', told)
               /\ efreed' = efreed \cup Deleted(unlocked, cfg, oldcfg, tcur', told)
               /\ tpc' = [tpc EXCEPT ![t] = "rem_retry"]
               /\ UNCHANGED <<tkey, ti, tslot, tret>>
          ELSE IF IsFree(e)
          THEN \* lines 241-243: return 0
               /\ tcur' = [tcur EXCEPT ![t] = 0]
               /\ gens' = Reclaim(unlocked, cfg, oldcfg, tcur', told)
               /\ efreed' = efreed \cup Deleted(unlocked, cfg, oldcfg, tcur', told)
               /\ tret' = [tret EXCEPT ![t] = 0]
               /\ tpc' = [tpc EXCEPT ![t] = "idle"]
               /\ Forget(t)
          ELSE IF KeyOf(e) = tkey[t]
          THEN \* lines 246-250: the slot is tombstoned; return e->second
               LET marked == [unlocked EXCEPT ![c].table[slot + 1] = SentinelPtr,
                                              ![c].deleted = @ \cup {e}]
               IN /\ tcur' = [tcur EXCEPT ![t] = 0]
                  /\ gens' = Reclaim(marked, cfg, oldcfg, tcur', told)
                  /\ efreed' = efreed \cup Deleted(marked, cfg, oldcfg, tcur', told)
                  /\ tret' = [tret EXCEPT ![t] = ecount[e]]
                  /\ tpc' = [tpc EXCEPT ![t] = "idle"]
                  /\ Forget(t)
          ELSE IF ti[t] + 1 < maxcollisions
          THEN \* line 252: next probe
               /\ gens' = unlocked
               /\ ti' = [ti EXCEPT ![t] = @ + 1]
               /\ tpc' = [tpc EXCEPT ![t] = "rem_lock"]
               /\ UNCHANGED <<efreed, tcur, tkey, tslot, tret>>
          ELSE \* line 253: the for loop ends, while( true ) goes on
               /\ tcur' = [tcur EXCEPT ![t] = 0]
               /\ gens' = Reclaim(unlocked, cfg, oldcfg, tcur', told)
               /\ efreed' = efreed \cup Deleted(unlocked, cfg, oldcfg, tcur', told)
               /\ tpc' = [tpc EXCEPT ![t] = "rem_retry"]
               /\ UNCHANGED <<tkey, ti, tslot, tret>>
    /\ UNCHANGED nonTable
    /\ UNCHANGED <<cfg, oldcfg, ecount, maxcollisions, sizecap, tmp, told,
                   tlocked, tnewsz, issued, removals, nops, texp>>

\* remove, lines 231-232: the next round of while( true ) starts with
\* current = cfg
RemRetry(t) ==
    /\ tpc[t] = "rem_retry"
    /\ tcur' = [tcur EXCEPT ![t] = cfg]
    /\ ti' = [ti EXCEPT ![t] = 0]
    /\ tpc' = [tpc EXCEPT ![t] = "rem_lock"]
    /\ UNCHANGED nonTable
    /\ UNCHANGED <<gens, cfg, oldcfg, ecount, efreed, maxcollisions, sizecap, tkey, tslot,
                   tmp, tret, told, tlocked, tnewsz, issued, removals, nops, texp>>

\* contains, lines 174-176: a call starts; current = cfg; slot = hash_func( key )
ConStart(t, key) ==
    /\ tpc[t] = "idle"
    /\ nops > 0
    /\ nops' = nops - 1
    /\ tkey' = [tkey EXCEPT ![t] = key]
    /\ tcur' = [tcur EXCEPT ![t] = cfg]
    /\ ti' = [ti EXCEPT ![t] = 0]
    /\ tslot' = [tslot EXCEPT ![t] = hash_func(key, gens[cfg].ha, gens[cfg].hp)]
    /\ texp' = [texp EXCEPT ![t] = 0]
    /\ tpc' = [tpc EXCEPT ![t] = "con_probe"]
    /\ UNCHANGED nonTable
    /\ UNCHANGED <<gens, cfg, oldcfg, ecount, efreed, maxcollisions, sizecap, tmp, tret,
                   told, tlocked, tnewsz, issued, removals>>

\* a contains that counts the look-up as an occurrence of the key
ConProbeCounting(t) ==
    /\ tpc[t] = "con_probe"
    /\ LET g == gens[tcur[t]]
           slot == (tslot[t] + ti[t] * ti[t]) % SizeOf(g)
           e == SlotAt(g, slot)
           found == e # NullPtr /\ KeyOf(e) = tkey[t]
       IN IF e = NullPtr \/ found \/ ti[t] + 1 >= maxcollisions
          THEN \* lines 180, 182, 185: return
               /\ tret' = [tret EXCEPT ![t] = IF found THEN ecount[e] ELSE 0]
               /\ tcur' = [tcur EXCEPT ![t] = 0]
               /\ gens' = Reclaim(gens, cfg, oldcfg, tcur', told)
               /\ efreed' = efreed \cup Deleted(gens, cfg, oldcfg, tcur', told)
               /\ tpc' = [tpc EXCEPT ![t] = "idle"]
               /\ Forget(t)
          ELSE /\ tslot' = [tslot EXCEPT ![t] = slot]
               /\ ti' = [ti EXCEPT ![t] = @ + 1]
               /\ UNCHANGED <<gens, efreed, tcur, tkey, tret, tpc>>
    /\ UNCHANGED nonTable
    /\ ecount' = [e \in DOMAIN ecount |->
                     IF ~IsFree(e) /\ KeyOf(e) = tkey[t] /\ ecount[e] > 0
                     THEN ecount[e] + 1 ELSE ecount[e]]
    /\ UNCHANGED <<cfg, oldcfg, maxcollisions, sizecap, tmp, told, tlocked,
                   tnewsz, issued, removals, nops, texp>>

\* contains, lines 177-185: one round of the loop, without any lock
ConProbe(t) ==
    /\ tpc[t] = "con_probe"
    /\ LET g == gens[tcur[t]]
           slot == (tslot[t] + ti[t] * ti[t]) % SizeOf(g)
           e == SlotAt(g, slot)
           found == e # NullPtr /\ KeyOf(e) = tkey[t]
       IN IF e = NullPtr \/ found \/ ti[t] + 1 >= maxcollisions
          THEN \* lines 180, 182, 185: return
               /\ tret' = [tret EXCEPT ![t] = IF found THEN ecount[e] ELSE 0]
               /\ tcur' = [tcur EXCEPT ![t] = 0]
               /\ gens' = Reclaim(gens, cfg, oldcfg, tcur', told)
               /\ efreed' = efreed \cup Deleted(gens, cfg, oldcfg, tcur', told)
               /\ tpc' = [tpc EXCEPT ![t] = "idle"]
               /\ Forget(t)
          ELSE /\ tslot' = [tslot EXCEPT ![t] = slot]
               /\ ti' = [ti EXCEPT ![t] = @ + 1]
               /\ UNCHANGED <<gens, efreed, tcur, tkey, tret, tpc>>
    /\ UNCHANGED nonTable
    /\ UNCHANGED <<cfg, oldcfg, ecount, maxcollisions, sizecap, tmp, told, tlocked,
                   tnewsz, issued, removals, nops, texp>>

\* contains, lines 176-185, from round i on with the running slot value
RECURSIVE ContainsFrom(_, _, _, _)
ContainsFrom(g, key, slot, i) ==
    LET s == (slot + i * i) % SizeOf(g)
        e == SlotAt(g, s)
    IN IF e = NullPtr THEN 0
       ELSE IF KeyOf(e) = key THEN ecount[e]
       ELSE IF i + 1 >= maxcollisions THEN 0
       ELSE ContainsFrom(g, key, s, i + 1)

\* contains, lines 173-186: what a call returns that runs alone from this state
contains(key) ==
    ContainsFrom(gens[cfg], key, hash_func(key, gens[cfg].ha, gens[cfg].hp), 0)

\* insert, lines 195-221, from probe i on: the value returned, or
\* NeedsResize after maxcollisions slots that hold other keys
NeedsResize == -1

RECURSIVE InsertFrom(_, _, _)
InsertFrom(g, key, i) ==
    LET e == SlotAt(g, ProbeSlot(g, key, i))
    IN IF IsFree(e) THEN 1
       ELSE IF KeyOf(e) = key THEN ecount[e] + 1
       ELSE IF i + 1 >= maxcollisions THEN NeedsResize
       ELSE InsertFrom(g, key, i + 1)

\* increment, line 258: what a call returns that runs alone from this state
increment(key) == InsertFrom(gens[cfg], key, 0)

Insert(t) ==
    \/ \E key \in Keys : InsStart(t, key)
    \/ InsLock(t)
    \/ InsSlot(t)
    \/ InsAdd(t)
    \/ InsRetry(t)
    \/ RsCall(t)
    \/ RsLock(t)
    \/ RsGrow(t)

Remove(t) ==
    \/ \E key \in Keys : RemStart(t, key)
    \/ RemLock(t)
    \/ RemSlot(t)
    \/ RemRetry(t)

Contains(t) ==
    \/ \E key \in Keys : ConStart(t, key)
    \/ ConProbe(t)

(***************************************************************************)
(* stripedhashcounter::extract_top called while other threads call the     *)
(* table                                                                   *)
(***************************************************************************)
\* extract_top, lines 261-263: a call starts; std::shared_ptr<config> current = cfg
XtStart(t) ==
    /\ tpc[t] = "idle"
    /\ nops > 0
    /\ nops' = nops - 1
    /\ tcur' = [tcur EXCEPT ![t] = cfg]
    /\ tlocked' = [tlocked EXCEPT ![t] = 0]
    /\ tpc' = [tpc EXCEPT ![t] = "xt_lock"]
    /\ UNCHANGED nonTable
    /\ UNCHANGED <<gens, cfg, oldcfg, ecount, efreed, maxcollisions, sizecap, tkey, ti, tslot,
                   tmp, tret, told, tnewsz, issued, removals, texp>>

\* mutant of XtNextLock: the locks are taken from the last to the first
XtNextLockDown(g, n) == Len(g.locks) - n

\* extract_top, line 266: the index (from 1) of the lock taken when n locks
\* are held: for( unsigned i=0; i<current->locks.size(); ++i )
XtNextLock(g, n) == n + 1

\* extract_top, lines 266-268: lgs.emplace_back( current->locks[i] ), one lock
\* a step
XtLock(t) ==
    /\ tpc[t] = "xt_lock"
    /\ LET g == gens[tcur[t]]
           l == XtNextLock(g, tlocked[t])
       IN /\ g.locks[l] = 0
          /\ gens' = [gens EXCEPT ![tcur[t]].locks[l] = t]
          /\ tlocked' = [tlocked EXCEPT ![t] = @ + 1]
          /\ tpc' = [tpc EXCEPT ![t] =
                       IF tlocked[t] + 1 = Len(g.locks) THEN "xt_scan" ELSE "xt_lock"]
    /\ UNCHANGED nonTable
    /\ UNCHANGED <<cfg, oldcfg, ecount, efreed, maxcollisions, sizecap, tkey, tcur, ti, tslot,
                   tmp, tret, told, tnewsz, issued, removals, nops, texp>>

\* extract_top, lines 270-293: the slots are read into the heap (the vector
\* returned is the one XExtract computes) and no slot is written; at the
\* return lgs releases the locks and current is released
XtScan(t) ==
    /\ tpc[t] = "xt_scan"
    /\ LET c == tcur[t]
           released == [gens EXCEPT ![c] = Unlock(gens[c], t)]
       IN /\ tcur' = [tcur EXCEPT ![t] = 0]
          /\ gens' = Reclaim(released, cfg, oldcfg, tcur', told)
          /\ efreed' = efreed \cup Deleted(released, cfg, oldcfg, tcur', told)
    /\ tlocked' = [tlocked EXCEPT ![t] = 0]
    /\ tpc' = [tpc EXCEPT ![t] = "idle"]
    /\ UNCHANGED nonTable
    /\ UNCHANGED <<cfg, oldcfg, ecount, maxcollisions, sizecap, tkey, ti, tslot, tmp, tret,
                   told, tnewsz, issued, removals, nops, texp>>

ExtractTop(t) ==
    \/ XtStart(t)
    \/ XtLock(t)
    \/ XtScan(t)

\* a single thread that calls the table
Caller == 1

NextTableSeq ==
    \/ Insert(Caller)
    \/ Remove(Caller)
    \/ Contains(Caller)

\* threads that only call insert and remove
NextTableWriters ==
    \/ \E t \in TableThreads : Insert(t)
    \/ \E t \in TableThreads : Remove(t)

\* threads that call increment and contains, never remove
NextTableGrow ==
    \/ \E t \in TableThreads : Insert(t)
    \/ \E t \in TableThreads : Contains(t)

\* threads that call increment, remove and extract_top
NextTableLocks ==
    \/ \E t \in TableThreads : Insert(t)
    \/ \E t \in TableThreads : Remove(t)
    \/ \E t \in TableThreads : ExtractTop(t)

NextTable ==
    \/ \E t \in TableThreads : Insert(t)
    \/ \E t \in TableThreads : Remove(t)
    \/ \E t \in TableThreads : Contains(t)

(***************************************************************************)
(* A whole run: two files, two workers, the table, the barrier, the output *)
(***************************************************************************)
\* stripedhash.h lines 31 and 37: the arguments of the default constructor
DEFAULT_SIZE == 8
DEFAULT_MC == 8

\* the command line: -N 2 -c 2
ScnThreads == 2
ScnCount == 2

ScnWorkers == 1..ScnThreads

\* a file: its lines, each a sequence of words, and whether the last line
\* ends with a newline
FileA == [lines |-> << <<"Cat", "cat", "DOG">> >>, newline |-> TRUE]
FileB == [lines |-> << <<"dog", "Bird">> >>, newline |-> TRUE]

\* worker_process_file, lines 201-226: getline, then while( infile.good() ):
\* a line is processed when getline did not reach the end of the file
ProcessedLines(f) ==
    IF f.newline THEN f.lines ELSE SubSeq(f.lines, 1, Len(f.lines) - 1)

RECURSIVE Flatten(_)
\* the words of a sequence of lines, in order
Flatten(ls) == IF ls = <<>> THEN <<>> ELSE Head(ls) \o Flatten(Tail(ls))

\* the words worker_process_file passes to increment
WordsOf(f) == Flatten(ProcessedLines(f))

\* worker_process_file, line 212: transform( ..., ::tolower )
ToLower(word) ==
    CASE word = "Cat" -> "cat"
      [] word = "DOG" -> "dog"
      [] word = "Bird" -> "bird"
      [] OTHER -> word

\* the key that stands for a word; the order of the keys is the order of the
\* words as strings
WordKey(word) ==
    CASE word = "bird" -> 1
      [] word = "cat" -> 3
      [] word = "dog" -> 5

\* bq hands every file name to one worker, a.txt before b.txt
Handouts ==
    {[w \in AllWorkers |-> IF w = 1 THEN WordsOf(FileA) \o WordsOf(FileB) ELSE <<>>],
     [w \in AllWorkers |-> IF w = 2 THEN WordsOf(FileA) \o WordsOf(FileB) ELSE <<>>],
     [w \in AllWorkers |-> IF w = 1 THEN WordsOf(FileA)
                           ELSE IF w = 2 THEN WordsOf(FileB) ELSE <<>>],
     [w \in AllWorkers |-> IF w = 1 THEN WordsOf(FileB)
                           ELSE IF w = 2 THEN WordsOf(FileA) ELSE <<>>]}

RunIdle == todo = [w \in AllWorkers |-> <<>>]

\* main, lines 98-114: the workers run, the names and the sentinels are in
\* the queue; word_map is default constructed (line 40)
InitScenarioA ==
    /\ nthreads = ScnThreads
    /\ variant \in {1, 2}
    /\ donecount = 0
    /\ donemtx = -1
    /\ doneWaiters = {}
    /\ bpc = [t \in {Main} \cup AllWorkers |->
                IF t = Main THEN "m_check" ELSE IF t <= ScnThreads THEN "loop" ELSE "off"]
    /\ todo \in Handouts
    /\ work = [w \in AllWorkers |-> Len(todo[w])]
    /\ earlyWake = FALSE
    /\ TableInit(DEFAULT_SIZE, DEFAULT_MC, 0, 0)
    /\ tpc = [t \in TableThreads |-> "off"]

\* worker_process_file, lines 210-218: the next word is made lowercase and
\* word_map.increment( word ) is called
ScnCall(w) ==
    /\ bpc[w] = "loop"
    /\ todo[w] # <<>>
    /\ bpc' = [bpc EXCEPT ![w] = "inc"]
    /\ todo' = [todo EXCEPT ![w] = Tail(@)]
    /\ tkey' = [tkey EXCEPT ![w] = WordKey(ToLower(Head(todo[w])))]
    /\ tpc' = [tpc EXCEPT ![w] = "idle"]
    /\ nops' = nops + 1
    /\ UNCHANGED <<qvars, xvars, pvars, fvars>>
    /\ UNCHANGED <<nthreads, variant, donecount, donemtx, doneWaiters, work, earlyWake>>
    /\ UNCHANGED <<gens, cfg, oldcfg, ecount, efreed, maxcollisions, sizecap, tcur, ti, tslot,
                   tmp, tret, told, tlocked, tnewsz, issued, removals, texp>>

\* the steps of insert; with three distinct words in eight slots every insert
\* finds its key or a free slot, so resize is not called
ScnInsert(w) ==
    \/ (tkey[w] # 0 /\ InsStart(w, tkey[w]))
    \/ InsLock(w)
    \/ InsSlot(w)
    \/ InsAdd(w)

\* worker_process_file, lines 218-220: increment has returned
ScnReturn(w) ==
    /\ bpc[w] = "inc"
    /\ tpc[w] = "idle"
    /\ tkey[w] = 0
    /\ bpc' = [bpc EXCEPT ![w] = "loop"]
    /\ work' = [work EXCEPT ![w] = @ - 1]
    /\ tpc' = [tpc EXCEPT ![w] = "off"]
    /\ UNCHANGED <<qvars, xvars, pvars, svars, fvars>>
    /\ UNCHANGED <<nthreads, variant, donecount, donemtx, doneWaiters, earlyWake>>
    /\ UNCHANGED <<gens, cfg, oldcfg, ecount, efreed, maxcollisions, sizecap, tkey, tcur, ti,
                   tslot, tmp, tret, told, tlocked, tnewsz, issued, removals, nops, texp>>

\* what extract_top reads in the slots of a config
TableSlots(g) ==
    [i \in 1..Len(g.table) |->
       IF g.table[i] = NullPtr THEN NullSlot
       ELSE IF g.table[i] = SentinelPtr THEN TombSlot
       ELSE ElemSlot(KeyOf(g.table[i]), ecount[g.table[i]])]

\* main, line 398 (print_results, line 123): extract_top( count ) is called
\* on the table as it is when main has left the wait loop
ScnExtract ==
    /\ bpc[Main] = "extract"
    /\ xpc = "off"
    /\ xtable' = TableSlots(gens[cfg])
    /\ xcount' = ScnCount
    /\ xpc' = "call"
    /\ UNCHANGED <<qvars, bvars, tvars, pvars, svars, fvars>>
    /\ UNCHANGED <<xresult, xprinted>>

ScnWorker(w) ==
    \/ ScnCall(w)
    \/ ScnInsert(w)
    \/ ScnReturn(w)
    \/ WorkerExit(w)
    \/ WorkerLock(w)
    \/ WorkerAdd(w)
    \/ WorkerNotify(w)
    \/ WorkerUnlock(w)

ScnMain ==
    \/ MainThread
    \/ ScnExtract
    \/ XExtract
    \/ XPrint

NextScenarioA ==
    \/ \E w \in ScnWorkers : ScnWorker(w)
    \/ ScnMain
    \/ MainSpuriousWake

(***************************************************************************)
(* Scenario B: a table built as stripedhashcounter<int>(2, 2) and one      *)
(* thread that inserts distinct keys                                       *)
(***************************************************************************)

\* a table built with size = 8 instead
InitScenarioBWide ==
    /\ TableInit(DEFAULT_SIZE, 2, ScnKeys, ScnDoublings)
    /\ tpc = [t \in TableThreads |-> "idle"]

\* stripedhashcounter::stripedhashcounter, lines 162-166, with size = 2 and
\* mc = 2
InitScenarioB ==
    /\ TableInit(2, 2, ScnKeys, ScnDoublings)
    /\ tpc = [t \in TableThreads |-> "idle"]

\* increment, line 258, called by one thread with a key not inserted before;
\* no probe finds the key of the call, so lines 211-215 are never run
NextScenarioB ==
    \/ \E key \in KeysB : issued[key] = 0 /\ InsStart(Caller, key)
    \/ InsLock(Caller)
    \/ InsSlot(Caller)
    \/ InsRetry(Caller)
    \/ RsCall(Caller)
    \/ RsLock(Caller)
    \/ RsGrow(Caller)

(***************************************************************************)
(* One worker that reads the files it dequeues (ssfi.cpp, run with -N 1)   *)
(***************************************************************************)
\* the worker as a consumer of bq
FileConsumer == NProducers + 1

\* the lines of the files, each a sequence of words: a file of n lines holds
\* the first n of them
FileText == << <<"Cat", "cat">>, <<"DOG">> >>

\* a file: whether ifstream can open it, its lines, and whether its last
\* line ends with a newline
FileRec(o, n, nl) == [openable |-> o, lines |-> SubSeq(FileText, 1, n), newline |-> nl]

\* the files a directory may hold: one that cannot be opened, an empty one,
\* and files of 1..MaxLines lines with and without a final newline
FileSet ==
    {FileRec(FALSE, 0, TRUE), FileRec(TRUE, 0, TRUE)}
      \cup {FileRec(TRUE, n, nl) : n \in 1..MaxLines, nl \in BOOLEAN}

\* nftw_process_file, line 141: the names enqueued, at most MaxFiles
FileLists == UNION {[1..n -> FileSet] : n \in 0..MaxFiles}

FilesIdle ==
    /\ flist = <<>>
    /\ fpc = "off"
    /\ frest = <<>>
    /\ fgood = FALSE
    /\ fline = <<>>
    /\ fcalls = <<>>

\* main, lines 98-114 with nthreads = 1: the worker is started and is in its
\* first deq call (line 154); main is about to enqueue the names of the files
\* and one empty string
InitFiles ==
    /\ QueueInit
    /\ qpc = [t \in QThreads |-> "idle"]
    /\ flist \in FileLists
    /\ quota = [p \in Producers |-> IF p = Initiator THEN Len(flist) + 1 ELSE 0]
    /\ ncalls = [c \in Consumers |-> IF c = FileConsumer THEN 1 ELSE 0]
    /\ fpc = "deq"
    /\ frest = <<>>
    /\ fgood = FALSE
    /\ fline = <<>>
    /\ fcalls = <<>>
    /\ nthreads = 1
    /\ variant \in {1, 2}
    /\ donecount = 0
    /\ donemtx = -1
    /\ doneWaiters = {}
    /\ bpc = [t \in {Main} \cup AllWorkers |-> "off"]
    /\ work = [t \in AllWorkers |-> 0]
    /\ earlyWake = FALSE
    /\ TableInit(DEFAULT_SIZE, DEFAULT_MC, 0, 0)
    /\ tpc = [t \in TableThreads |-> "off"]

\* worker, line 155 (428): s.length() > 0 holds for the name of a file and
\* fails for the empty string main enqueues after the names
IsFileName(item) == item # NoItem /\ item[2] <= Len(flist)

\* the file named by the string s the worker holds
CurFile == flist[result[FileConsumer][2]]

\* worker, lines 154-155 and 164-167 (427-428 and 432-434): deq has returned
\* s; the loop body runs for the name of a file and the loop ends for the
\* empty string
FileTest(w) ==
    /\ fpc = "deq"
    /\ qpc[FileConsumer] = "idle"
    /\ returned[FileConsumer] = ncalls[FileConsumer]
    /\ IF IsFileName(result[FileConsumer])
       THEN /\ fpc' = "open"
            /\ UNCHANGED bpc
       ELSE /\ fpc' = "left"
            /\ bpc' = [bpc EXCEPT ![w] = IF variant = 1 THEN "w_lock" ELSE "w_add"]
    /\ UNCHANGED <<qvars, xvars, tvars, pvars, svars>>
    /\ UNCHANGED <<nthreads, variant, donecount, donemtx, doneWaiters, work, earlyWake>>
    /\ UNCHANGED <<flist, frest, fgood, fline, fcalls>>

\* mutant of FileOpen: a file that cannot be opened ends the worker thread
FileOpenFatal ==
    /\ fpc = "open"
    /\ IF CurFile.openable
       THEN /\ fpc' = "getline"
            /\ frest' = CurFile.lines
            /\ fgood' = TRUE
       ELSE /\ fpc' = "failed"
            /\ frest' = <<>>
            /\ fgood' = FALSE
    /\ fline' = <<>>
    /\ fcalls' = <<>>
    /\ UNCHANGED <<qvars, bvars, xvars, tvars, pvars, svars>>
    /\ UNCHANGED flist

\* worker_process_file, lines 191-197 (443-449): ifstream infile( name );
\* if ( !infile.good() ) the message is printed and the function returns
FileOpen ==
    /\ fpc = "open"
    /\ IF CurFile.openable
       THEN /\ fpc' = "getline"
            /\ frest' = CurFile.lines
            /\ fgood' = TRUE
       ELSE /\ fpc' = "ret"
            /\ frest' = <<>>
            /\ fgood' = FALSE
    /\ fline' = <<>>
    /\ fcalls' = <<>>
    /\ UNCHANGED <<qvars, bvars, xvars, tvars, pvars, svars>>
    /\ UNCHANGED flist

\* std::getline( infile, line ): characters are extracted up to the next
\* newline; the end of the file sets eofbit, together with failbit when no
\* character was extracted, and good() is false as soon as one bit is set
GetLine(rest, nl) ==
    IF rest = <<>>
    THEN [line |-> <<>>, rest |-> <<>>, good |-> FALSE]
    ELSE [line |-> Head(rest), rest |-> Tail(rest), good |-> (Len(rest) > 1 \/ nl)]

\* worker_process_file, lines 201 and 224 (452 and 464): getline( infile, line )
FileGetLine ==
    /\ fpc = "getline"
    /\ LET r == GetLine(frest, CurFile.newline)
       IN /\ fline' = r.line
          /\ frest' = r.rest
          /\ fgood' = r.good
    /\ fpc' = "good"
    /\ UNCHANGED <<qvars, bvars, xvars, tvars, pvars, svars>>
    /\ UNCHANGED <<flist, fcalls>>

\* worker_process_file, lines 202 and 226 (453 and 466): while( infile.good() );
\* the function returns when the loop ends
FileGood ==
    /\ fpc = "good"
    /\ fpc' = IF fgood THEN "token" ELSE "ret"
    /\ UNCHANGED <<qvars, bvars, xvars, tvars, pvars, svars>>
    /\ UNCHANGED <<flist, frest, fgood, fline, fcalls>>

\* worker_process_file, lines 207-218 (455-460): while( rit != re_end ) the
\* word is made lowercase and passed to word_map.increment (hc.insert); at
\* re_end the next line is read
FileToken(w) ==
    /\ fpc = "token"
    /\ IF fline = <<>>
       THEN /\ fpc' = "getline"
            /\ UNCHANGED <<fline, fcalls, tkey, tpc, nops>>
       ELSE /\ fpc' = "inc"
            /\ fline' = Tail(fline)
            /\ fcalls' = Append(fcalls, ToLower(Head(fline)))
            /\ tkey' = [tkey EXCEPT ![w] = WordKey(ToLower(Head(fline)))]
            /\ tpc' = [tpc EXCEPT ![w] = "idle"]
            /\ nops' = nops + 1
    /\ UNCHANGED <<qvars, bvars, xvars, pvars, svars>>
    /\ UNCHANGED <<flist, frest, fgood>>
    /\ UNCHANGED <<gens, cfg, oldcfg, ecount, efreed, maxcollisions, sizecap, tcur, ti, tslot,
                   tmp, tret, told, tlocked, tnewsz, issued, removals, texp>>

\* worker_process_file, lines 218-221 (460-462): increment has returned; ++rit
FileReturn(w) ==
    /\ fpc = "inc"
    /\ tpc[w] = "idle"
    /\ tkey[w] = 0
    /\ fpc' = "token"
    /\ tpc' = [tpc EXCEPT ![w] = "off"]
    /\ UNCHANGED <<qvars, bvars, xvars, pvars, svars>>
    /\ UNCHANGED <<flist, frest, fgood, fline, fcalls>>
    /\ UNCHANGED <<gens, cfg, oldcfg, ecount, efreed, maxcollisions, sizecap, tkey, tcur, ti,
                   tslot, tmp, tret, told, tlocked, tnewsz, issued, removals, nops, texp>>

\* worker, line 164 (432): worker_process_file has returned; s = q->deq()
FileNext ==
    /\ fpc = "ret"
    /\ fpc' = "deq"
    /\ ncalls' = [ncalls EXCEPT ![FileConsumer] = @ + 1]
    /\ UNCHANGED <<bvars, xvars, tvars, pvars, svars>>
    /\ UNCHANGED <<flist, frest, fgood, fline, fcalls>>
    /\ UNCHANGED <<qnext, qvalue, qfreed, head, tail, size, enqMtx, deqMtx, cvWaiters,
                   qpc, qn, mustWake, result, quota, sent, returned, enqueued,
                   dequeued, waited>>

\* the worker thread: its loop, the calls it makes and, after the loop, lines
\* 168-180 (434-437)
FileWorker(w) ==
    \/ FileTest(w)
    \/ FileOpen
    \/ FileGetLine
    \/ FileGood
    \/ FileToken(w)
    \/ ScnInsert(w)
    \/ FileReturn(w)
    \/ FileNext
    \/ Deq(FileConsumer)
    \/ WorkerLock(w)
    \/ WorkerAdd(w)
    \/ WorkerNotify(w)
    \/ WorkerUnlock(w)

NextFiles ==
    \/ Enq(Initiator)
    \/ FileWorker(Caller)
    \/ DeqSpuriousWake(FileConsumer)

(***************************************************************************)
(* Specifications                                                          *)
(***************************************************************************)
\* the queue alone: the other components stay as constructed
StartQueue == InitQueue /\ BarrierIdle /\ TopIdle /\ TableIdle /\ PoolIdle /\ RunIdle /\ FilesIdle

SpecQueue == StartQueue /\ [][NextQueue]_vars

\* fair scheduling: a thread that can take a step again and again eventually
\* takes one (a thread blocked on a mutex that keeps being released eventually
\* gets it); a wait is never guaranteed to return without a notification
FairSpecQueue ==
    /\ SpecQueue
    /\ \A p \in Producers : SF_vars(Enq(p))
    /\ \A c \in Consumers : SF_vars(Deq(c))

\* the barrier alone: the other components stay as constructed
StartBarrier == InitBarrier /\ QueueIdle /\ TopIdle /\ TableIdle /\ PoolIdle /\ RunIdle /\ FilesIdle

SpecBarrier == StartBarrier /\ [][NextBarrier]_vars

\* fair scheduling of the workers and of the initiating thread; no fairness
\* for spurious returns of donecv.wait
FairSpecBarrier ==
    /\ SpecBarrier
    /\ \A w \in AllWorkers : SF_vars(Worker(w))
    /\ SF_vars(MainThread)

\* extract_top alone, applied to every table of XSlots slots
StartTop == InitTop /\ QueueIdle /\ BarrierIdle /\ TableIdle /\ PoolIdle /\ RunIdle /\ FilesIdle

SpecTop == StartTop /\ [][NextTop]_vars

\* the table alone, called by NTableThreads threads
StartTable == InitTable /\ QueueIdle /\ BarrierIdle /\ TopIdle /\ PoolIdle /\ RunIdle /\ FilesIdle

SpecTable == StartTable /\ [][NextTable]_vars

\* the table called by NTableThreads threads that insert and remove
StartTableWriters == InitTableWriters /\ QueueIdle /\ BarrierIdle /\ TopIdle /\ PoolIdle /\ RunIdle /\ FilesIdle

SpecTableWriters == StartTableWriters /\ [][NextTableWriters]_vars

\* the table called by NTableThreads threads that insert, remove and extract
StartTableLocks == InitTableLocks /\ QueueIdle /\ BarrierIdle /\ TopIdle /\ PoolIdle /\ RunIdle /\ FilesIdle

SpecTableLocks == StartTableLocks /\ [][NextTableLocks]_vars

\* the table called by NTableThreads threads that never call remove
SpecTableGrow == StartTable /\ [][NextTableGrow]_vars

\* the table called by one thread only
StartTableSeq == InitTableSeq /\ QueueIdle /\ BarrierIdle /\ TopIdle /\ PoolIdle /\ RunIdle /\ FilesIdle

SpecTableSeq == StartTableSeq /\ [][NextTableSeq]_vars

\* the caller goes on with the call it is in
FairSpecTableSeq == SpecTableSeq /\ WF_vars(NextTableSeq)

\* the whole run on the two files
StartScenarioB == InitScenarioB /\ QueueIdle /\ BarrierIdle /\ TopIdle /\ PoolIdle /\ RunIdle /\ FilesIdle
StartScenarioA == InitScenarioA /\ QueueIdle /\ TopIdle /\ PoolIdle /\ FilesIdle

SpecScenarioB == StartScenarioB /\ [][NextScenarioB]_vars
FairSpecScenarioB == SpecScenarioB /\ WF_vars(NextScenarioB)
SpecScenarioA == StartScenarioA /\ [][NextScenarioA]_vars

\* the queue with main as its producer and the workers as its consumers
StartPool == InitPool /\ BarrierIdle /\ TopIdle /\ TableIdle /\ RunIdle /\ FilesIdle

SpecPool == StartPool /\ [][NextPool]_vars

\* fair scheduling as in FairSpecQueue; a worker that returned from deq goes on
FairSpecPool ==
    /\ SpecPool
    /\ \A p \in Producers : SF_vars(Enq(p))
    /\ \A c \in Consumers : SF_vars(Deq(c))
    /\ \A c \in Consumers : WF_vars(WorkerLoop(c))

\* one worker that reads the files main enqueues
StartFiles == InitFiles /\ TopIdle /\ PoolIdle /\ RunIdle

SpecFiles == StartFiles /\ [][NextFiles]_vars

\* main and the worker keep running; a mutex that keeps being released is
\* eventually acquired; no fairness for spurious returns of wait
FairSpecFiles ==
    /\ SpecFiles
    /\ SF_vars(Enq(Initiator))
    /\ SF_vars(FileWorker(Caller))

(***************************************************************************)
(* Properties of unboundedQueue                                            *)
(***************************************************************************)
RECURSIVE Chain(_, _)
\* the nodes linked from node n on, following at most k next pointers
Chain(n, k) ==
    IF n = 0 \/ k = 0 THEN <<>> ELSE <<n>> \o Chain(qnext[n], k - 1)

\* the values of the nodes linked behind the dummy head
QueueContent ==
    LET c == Chain(head, Len(qnext)) IN [i \in 1..(Len(c) - 1) |-> qvalue[c[i + 1]]]

\* a deq call has taken its item (line 90) but not yet advanced head (line 92)
Taking == \E c \in Consumers : qpc[c] \in {"d_free", "d_head"}

\* the producers that make at least one enq call
ActiveProducers == {p \in Producers : quota[p] > 0}

\* C6: the items of every producer are dequeued in the order of that
\* producer's enq calls (the i-th dequeued item of p is the item of p's i-th
\* call), and with a single producer the dequeued sequence as a whole is
\* the sequence of the enq calls.
C6_QueueFIFO ==
    /\ \A p \in Producers :
         LET d == SeqFilter(dequeued, p)
         IN \A i \in 1..Len(d) : d[i] = Item(p, i)
    /\ \A p \in Producers :
         ActiveProducers = {p} =>
           \A i \in 1..Len(dequeued) : dequeued[i] = Item(p, i)

\* C6 witness: two items of one producer were dequeued and an item of the
\* other producer was dequeued between them
C6_Witness ==
    \E i, j, k \in 1..Len(dequeued) :
       /\ i < j /\ j < k
       /\ dequeued[i][1] = dequeued[k][1]
       /\ dequeued[j][1] # dequeued[i][1]

\* C7: no item is returned twice, only enqueued items are returned, and
\* every item enqueued and not yet returned is still linked in the queue
\* (taken items followed by linked items are exactly the enqueued items).
C7_ExactlyOnce ==
    /\ \A i, j \in 1..Len(dequeued) : i # j => dequeued[i] # dequeued[j]
    /\ IsPrefix(dequeued, enqueued)
    /\ LET rest == IF Taking THEN Tail(QueueContent) ELSE QueueContent
       IN dequeued \o rest = enqueued

\* C7 witness: both consumers have returned an item and an item is still queued
C7_Witness ==
    /\ \A c \in Consumers : returned[c] >= 1
    /\ ~Taking
    /\ Len(QueueContent) >= 1

\* C8: under fair scheduling the number of deq calls that return reaches
\* min(number of deq calls made, number of items enqueued): no consumer
\* stays blocked while an item it could take is in the queue.
C8_NoLostWakeup ==
    <>(SumOver(returned, Consumers)
         = Min(SumOver(quota, Producers), SumOver(ncalls, Consumers)))

\* C8 witness: a deq call that blocked on the condition variable has returned
\* and at least two items were taken
C8_Witness ==
    \E w \in waited : returned[w[1]] >= w[2] /\ Len(dequeued) >= 2

(***************************************************************************)
(* Properties of the completion barrier                                    *)
(***************************************************************************)
\* every worker has incremented donecount and called notify_all
AllNotified == \A w \in Workers : bpc[w] \in {"w_unlock", "done"}

\* C9: once all workers have incremented the done-counter and notified the
\* condition variable, the initiating thread eventually leaves its wait and
\* proceeds to extract_top.
C9_BarrierLiveness == AllNotified ~> (bpc[Main] = "extract")

\* C10: the initiating thread proceeds to extract_top only when donecount
\* equals nthreads, every worker has left its dequeue loop and no increment
\* call is in progress or still to be made; donecount never exceeds nthreads.
C10_BarrierSafety ==
    /\ donecount <= nthreads
    /\ bpc[Main] = "extract" =>
         /\ donecount = nthreads
         /\ \A w \in Workers : bpc[w] \notin {"loop", "inc"} /\ work[w] = 0

\* C10 witness: the initiating thread has proceeded after at least one return
\* of donecv.wait that came before all workers were done
C10_Witness == bpc[Main] = "extract" /\ earlyWake /\ nthreads >= 2

(***************************************************************************)
(* Properties of extract_top                                               *)
(***************************************************************************)
\* the slots of the table that hold an element
LiveSlots == {i \in 1..Len(xtable) : xtable[i].kind = "elem"}

\* how often the pair e is in the table, and in the returned vector
InTable(e) == Cardinality({i \in LiveSlots : <<xtable[i].key, xtable[i].count>> = e})
InResult(e) == Cardinality({i \in 1..Len(xresult) : xresult[i] = e})

\* the pairs of which the table holds more than were returned
NotReturned ==
    {e \in {<<xtable[i].key, xtable[i].count>> : i \in LiveSlots} : InTable(e) > InResult(e)}

\* the smallest count in the returned vector
SmallestReturned ==
    CHOOSE c \in {xresult[i][2] : i \in 1..Len(xresult)} :
       \A i \in 1..Len(xresult) : c <= xresult[i][2]

\* C4: for count >= 1 the returned vector has at most count entries, is sorted
\* by count descending then key ascending, every element not returned has a
\* count <= the smallest returned count, and among the elements tied at that
\* count the returned ones have the smallest keys.
C4_TopKCorrect ==
    (xpc \in {"print", "done"} /\ xcount >= 1) =>
       /\ Len(xresult) <= xcount
       /\ \A i, j \in 1..Len(xresult) :
            i < j => \/ xresult[i][2] > xresult[j][2]
                     \/ xresult[i][2] = xresult[j][2] /\ xresult[i][1] <= xresult[j][1]
       /\ \A e \in NotReturned :
            /\ xresult # <<>>
            /\ e[2] <= SmallestReturned
            /\ \A i \in 1..Len(xresult) : xresult[i][2] = e[2] => xresult[i][1] <= e[1]

\* C4 witness: two returned elements and an element that is not returned tie
\* at the smallest returned count, and an element with a larger count is returned
C4_Witness ==
    /\ xpc = "done"
    /\ xcount = 3
    /\ \E e \in NotReturned : e[2] = SmallestReturned
    /\ Cardinality({i \in 1..Len(xresult) : xresult[i][2] = SmallestReturned}) = 2
    /\ xresult[1][2] > SmallestReturned

\* C5: extract_top returns exactly min(count, number of live keys) entries,
\* each of them an element of the table with count >= 1: never a placeholder;
\* in particular nothing for an empty table and nothing for count = 0.
C5_TopKSize ==
    xpc \in {"print", "done"} =>
       /\ Len(xresult) = Min(xcount, Cardinality(LiveSlots))
       /\ \A i \in 1..Len(xresult) : xresult[i][2] >= 1 /\ InTable(xresult[i]) >= 1
       /\ \A i \in 1..Len(xprinted) : xprinted[i][2] >= 1

(***************************************************************************)
(* Properties of stripedhashcounter                                        *)
(***************************************************************************)
AllReturned == \A t \in TableThreads : tpc[t] = "idle"

NoRemove == \A k \in Keys : removals[k] = 0

\* C1: when every increment has returned and no key was ever removed,
\* contains(k) equals the number of increment(k) calls issued, whatever the
\* interleaving and whatever resizes the increments of other keys forced
C1_LinearizableCounting ==
    (AllReturned /\ NoRemove) => \A k \in Keys : contains(k) = issued[k]

\* C2: a finished increment returned 1 if the key had no live counter in the
\* table when the call took effect, and the key's previous count plus 1
\* otherwise, also when an earlier slot of its probe sequence is a tombstone
C2_IncrementResult ==
    \A t \in TableThreads :
        (tpc[t] = "idle" /\ texp[t] # 0) => tret[t] = texp[t]

\* C3: a resize keeps every key of the table retrievable with its count:
\* contains(k) is the same after the resize as before it and the next
\* increment(k) gives that count plus 1
ResizePreserves ==
    \A k \in Keys :
        StoredCount(gens[cfg], k) > 0 =>
            /\ contains(k)' = contains(k)
            /\ increment(k)' \in {contains(k) + 1, NeedsResize}

C3_ResizePreservesState == [][cfg' # cfg => ResizePreserves]_vars

\* thread t returns from remove in this step
RemoveReturns(t) == tpc[t] = "rem_slot" /\ tpc'[t] = "idle"

\* the effect a remove of the live key of thread t has to have
RemoveEffect(t) ==
    /\ tret'[t] = StoredCount(gens[cfg], tkey[t])
    /\ contains(tkey[t])' = 0
    /\ increment(tkey[t])' = 1
    /\ \A k \in Keys \ {tkey[t]} :
          StoredCount(gens[cfg], k)' = StoredCount(gens[cfg], k)

\* C12: a remove of a key that is live in the current config returns the
\* key's count and tombstones its slot, wherever the key sits in its probe
\* sequence: afterwards contains gives 0, the next increment gives 1 and the
\* counts of the other keys are as before
C12_RemoveLiveKey ==
    [][\A t \in TableThreads :
          (RemoveReturns(t) /\ StoredCount(gens[cfg], tkey[t]) > 0) => RemoveEffect(t)]_vars

InRemove(t) == tpc[t] \in {"rem_lock", "rem_slot", "rem_retry"}

\* C13: every remove call returns, and a remove of a key that is not in the
\* table returns 0 and leaves the table as it is, also when all maxcollisions
\* slots of the key's probe sequence hold other keys
C13_RemoveAbsentTerminates == InRemove(Caller) ~> (tpc[Caller] = "idle")

\* thread t returns from contains in this step
ContainsReturns(t) == tpc[t] = "con_probe" /\ tpc'[t] = "idle"

\* the counts the live elements with this key have in the table of cfg
LiveCounts(key) ==
    {ecount[e] : e \in {x \in {gens[cfg].table[i] : i \in 1..Len(gens[cfg].table)} :
                          ~IsFree(x) /\ KeyOf(x) = key}}

\* C14: contains(k) returns a count k had in the table at some moment of the
\* call, and 0 only if k was absent at such a moment. With a single caller the
\* table does not change during the call, so the value returned is k's count
\* in the table of cfg, or 0 when no slot holds k
C14_ContainsConsistent ==
    [][ContainsReturns(Caller) =>
          tret'[Caller] \in (IF LiveCounts(tkey[Caller]) = {} THEN {0}
                             ELSE LiveCounts(tkey[Caller]))]_vars

\* the elements the slots of config g point to
SlotElements(g) == {g.table[i] : i \in 1..Len(g.table)} \ {NullPtr, SentinelPtr}

\* C15: an element is freed only when no config that a thread can still
\* reach (cfg, oldcfg or a config a thread captured) holds a pointer to it in
\* a slot, so that no thread can dereference a freed element
C15_NoUseAfterFree ==
    \A g \in 1..Len(gens) : gens[g].alive => SlotElements(gens[g]) \cap efreed = {}

\* the lines "cat : 2" and "dog : 2"
ExpectedA == << <<WordKey("cat"), 2>>, <<WordKey("dog"), 2>> >>

\* C16: on a.txt = "Cat cat DOG" and b.txt = "dog Bird" with 2 workers and
\* k = 2, every interleaving ends with the program having printed exactly
\* "cat : 2" and "dog : 2", in that order
\* (a run has ended when the workers have returned and main can take no step
\* unless donecv.wait returns without a notification)
RunEnded == (\A w \in ScnWorkers : bpc[w] = "done") /\ ~ENABLED ScnMain

C16_ScenarioA == RunEnded => (xpc = "done" /\ xprinted = ExpectedA)

(***************************************************************************)
(* Properties of the workers' loop                                         *)
(***************************************************************************)
\* the sentinels worker c has dequeued
SentinelsOf(c) == {x \in taken : x[1] = c /\ IsSentinel(x[3])}

\* the file names main enqueues
RealItems == {Item(Initiator, k) : k \in 1..nfiles}

\* the deq calls that returned the file name item
TakersOf(item) == {x \in taken : x[3] = item}

AllExited == \A c \in Consumers : ppc[c] = "exited"

\* what holds in every state of the protocol: a running worker has seen no
\* sentinel and a worker that left has seen one; no file name is processed
\* twice; a worker leaves only after every file name was dequeued; when all
\* workers have left, every file name was processed, all sentinels are gone
\* and the queue is empty
ProtocolSafe ==
    /\ \A c \in Consumers :
          Cardinality(SentinelsOf(c)) = IF ppc[c] = "exited" THEN 1 ELSE 0
    /\ \A item \in RealItems : Cardinality(TakersOf(item)) <= 1
    /\ \A c \in Consumers :
          ppc[c] = "exited" =>
              \A item \in RealItems : \E i \in 1..Len(dequeued) : dequeued[i] = item
    /\ AllExited =>
          /\ \A item \in RealItems : Cardinality(TakersOf(item)) = 1
          /\ Len(dequeued) = nfiles + SentinelCount
          /\ size = 0
          /\ qnext[head] = 0

\* C11: with one sentinel per worker enqueued after the file names, every
\* worker dequeues exactly one sentinel and leaves its loop, no sentinel stays
\* in the queue, and every file name is processed by exactly one worker
C11_TerminationProtocol == []ProtocolSafe /\ <>AllExited

C11_Witness == AllExited /\ nfiles = MaxFiles /\ \A c \in Consumers : \E x \in taken : x[1] = c /\ ~IsSentinel(x[3])

\* Properties of the five-key run

\* the keys whose insert has been called
InsertedB == {k \in KeysB : issued[k] > 0}

\* all ScnKeys inserts were called and have returned
DoneB == Cardinality(InsertedB) = ScnKeys /\ tpc[Caller] = "idle"

ContainsStep == \E t \in TableThreads : Contains(t)

\* C18: contains never modifies the table (the current config, the slots of
\* every config and the counts stay as they are in every step of a contains
\* call), a call returns what contains(k) is in the state it runs in, and no
\* step of a contains call changes what contains(k) is for any key k: so two
\* contains(k) calls with no increment, remove or resize between them return
\* the same value
C18_IdempotentReads ==
    [][ContainsStep =>
          /\ cfg' = cfg
          /\ ecount' = ecount
          /\ gens' = gens
          /\ ContainsReturns(Caller) => tret'[Caller] = contains(tkey[Caller])
          /\ \A k \in Keys : contains(k)' = contains(k)]_vars

\* C18 witness: after two increments of a key, a contains call for it has
\* returned 2 and a second contains call for it is running
C18_Witness ==
    /\ tpc[Caller] = "con_probe"
    /\ issued[tkey[Caller]] = 2
    /\ \A k \in Keys : issued[k] = (IF k = tkey[Caller] THEN 2 ELSE 0)
    /\ \A k \in Keys : removals[k] = 0
    /\ nops = MaxSeqOps - 4
    /\ tret[Caller] = 2
    /\ contains(tkey[Caller]) = 2

\* Properties of the slots of a generation

\* the slots of config g that hold an element with this key
SlotsOf(g, key) == {i \in 1..Len(g.table) : ~IsFree(g.table[i]) /\ KeyOf(g.table[i]) = key}

\* C19: in every reachable state no key occupies more than one slot of the
\* current generation
C19_KeyUniqueness == \A k \in Keys : Cardinality(SlotsOf(gens[cfg], k)) <= 1

\* the live (key, count) pairs of config g
LivePairs(g) == {<<KeyOf(e), ecount[e]>> : e \in SlotElements(g)}

\* C20: whenever a new generation is published as current, its live
\* (key, count) pairs are those of the generation that was current
\* immediately before the publication
C20_PublicationPreservesPairs ==
    [][cfg' # cfg => LivePairs(gens[cfg])' = LivePairs(gens[cfg])]_vars

\* Properties of resize

\* thread t publishes a new generation in this step (lines 144-145)
Publishes(t) == tpc[t] = "rs_grow" /\ tpc'[t] = "ins_retry" /\ cfg' # cfg

\* C21: resize publishes a new generation only if the generation it was
\* passed is still the current one, so that a generation is rehashed and
\* replaced only once
C21_ResizeOnlyCurrent ==
    [][\A t \in TableThreads : Publishes(t) => told[t] = cfg]_vars

\* Properties of stale generations

\* C22: no slot of a generation that is not the current one is ever written:
\* in every step the table of every config other than cfg stays as it is, as
\* long as the config exists
C22_NoStaleWrite ==
    [][\A g \in 1..Len(gens) :
          (g # cfg /\ gens[g].alive /\ gens'[g].alive)
             => gens'[g].table = gens[g].table]_vars

\* Properties of the stripe locks

\* thread t is between taking a stripe lock and the slot mutation or the
\* return that ends the lock_guard
AtSlot(t) == tpc[t] \in {"ins_slot", "ins_add", "rem_slot"}

\* thread t holds the stripe lock of the slot it works on, in the generation
\* it captured
HoldsStripe(t) ==
    LET g == gens[tcur[t]] IN g.locks[StripeOf(g, tslot[t])] = t

\* the element thread t is about to add 1 to (line 215)
ElementAt(t) == SlotAt(gens[tcur[t]], tslot[t])

\* C23: every slot mutation is done by a thread that holds the stripe lock
\* (slot mod stripe count) of the generation it mutates, so no two threads
\* work on the same slot, or update the same element's count, at the same
\* time
C23_MutationUnderLock ==
    /\ \A t \in TableThreads : AtSlot(t) => HoldsStripe(t)
    /\ \A t1, t2 \in TableThreads :
          (t1 # t2 /\ AtSlot(t1) /\ AtSlot(t2))
             => ~(tcur[t1] = tcur[t2] /\ tslot[t1] = tslot[t2])
    /\ \A t1, t2 \in TableThreads :
          (t1 # t2 /\ tpc[t1] = "ins_add" /\ tpc[t2] = "ins_add")
             => ElementAt(t1) # ElementAt(t2)

\* Properties of the probe sequences

\* C24: increment, remove, contains and the rehash of resize visit the same
\* probe sequence for a key: for every i below maxcollisions the i-th slot
\* contains and resize_helper look at is the i-th slot insert and remove
\* look at, (base + i * i) mod size
C24_SameProbeSequence ==
    \A k \in Keys : \A i \in 0..(maxcollisions - 1) :
       RunningSlot(gens[cfg], k, i) = ProbeSlot(gens[cfg], k, i)

\* Properties of the termination of increment

\* thread t is inside an increment call
InInsert(t) ==
    tpc[t] \in {"ins_lock", "ins_slot", "ins_add", "ins_retry", "rs_call", "rs_lock", "rs_grow"}

\* thread t is in the loop of resize and every size up to sizecap has failed
AtCap(t) == tpc[t] = "rs_grow" /\ 2 * tnewsz[t] > sizecap

QueueQuiet == \A t \in QThreads : qpc[t] = "idle"

\* C26: the size counter is never negative and never exceeds the number of
\* nodes linked behind the dummy head; whenever no enq or deq call is in
\* progress it equals the number of items enqueued minus the number dequeued.
C26_QueueSizeInvariant ==
    /\ size >= 0
    /\ size <= Len(QueueContent)
    /\ QueueQuiet => size = Len(enqueued) - Len(dequeued)

\* C26 witness: calls of both kinds have returned, none is in progress and
\* items are still queued
C26_Witness ==
    /\ QueueQuiet
    /\ Len(dequeued) >= 1
    /\ size >= 1
    /\ size = Len(enqueued) - Len(dequeued)

\* the items in a sequence of items
ItemsOf(q) == {q[i] : i \in 1..Len(q)}

\* C27: deq returns only a value that was enqueued and not dequeued before.
\* A consumer tests size only while it holds deqMtx, also after a wake-up;
\* once past the test the queue is not empty, the node it unlinks is the
\* node behind the dummy head, and the value it takes was enqueued and has
\* not been taken yet.
C27_DeqTakesQueuedItem ==
    /\ \A c \in Consumers :
         /\ qpc[c] \in {"d_check", "d_next", "d_dec", "d_move", "d_free", "d_head"}
              => deqMtx = c
         /\ qpc[c] = "d_next" => (size >= 1 /\ qnext[head] # 0)
         /\ qpc[c] \in {"d_dec", "d_move"} =>
              /\ qn[c] # 0
              /\ qn[c] = qnext[head]
              /\ qvalue[qn[c]] \in ItemsOf(enqueued) \ ItemsOf(dequeued)
         /\ qpc[c] \in {"d_free", "d_head"} =>
              /\ result[c] = dequeued[Len(dequeued)]
              /\ result[c] \notin ItemsOf(SubSeq(dequeued, 1, Len(dequeued) - 1))
    /\ ItemsOf(dequeued) \subseteq ItemsOf(enqueued)
    /\ NoItem \notin ItemsOf(dequeued)

\* C27 witness: a consumer that blocked in its current call has been woken,
\* holds deqMtx again and is about to test size, while the queue is empty
\* because the item was taken by another call
C27_Witness ==
    \E c \in Consumers :
       /\ qpc[c] = "d_check"
       /\ <<c, returned[c] + 1>> \in waited
       /\ size = 0
       /\ Len(dequeued) >= 1

\* the tokens of all lines of file f, in lowercase
TokensOf(f) ==
    LET ws == Flatten(f.lines) IN [i \in 1..Len(ws) |-> ToLower(ws[i])]

RECURSIVE TokensUpTo(_)
\* the number of tokens in the files among the first k that can be opened
TokensUpTo(k) ==
    IF k = 0 THEN 0
    ELSE TokensUpTo(k - 1) + (IF flist[k].openable THEN Len(TokensOf(flist[k])) ELSE 0)

\* the sum of the counts stored in the current table
TableTotal == SumOver([e \in SlotElements(gens[cfg]) |-> ecount[e]], SlotElements(gens[cfg]))

\* C28: when worker_process_file returns for a file it opened, increment was
\* called exactly once per token of every line of the file, the last line
\* included when it does not end with a newline, and the total count of the
\* table has grown by the number of tokens of the file (it is the number of
\* tokens of the files opened so far).
C28_EveryTokenCounted ==
    (fpc = "ret" /\ CurFile.openable) =>
       /\ fcalls = TokensOf(CurFile)
       /\ TableTotal = TokensUpTo(returned[FileConsumer])

\* the worker holds the name of a file that cannot be opened and has not
\* yet called deq again
Skipping == fpc \in {"open", "ret"} /\ ~CurFile.openable

\* the worker has dequeued the empty string, added 1 to donecount and
\* notified donecv
Completed ==
    /\ bpc[Caller] = "done"
    /\ donecount = 1
    /\ ~IsFileName(result[FileConsumer])

\* C29: while the worker holds a name that cannot be opened no step changes
\* the table or starts a call of it, and the worker's only steps are the
\* return of worker_process_file and the next deq call; and from there it
\* always comes to dequeue the empty string and to signal completion.
C29_UnopenableSkipped ==
    /\ [][Skipping =>
            /\ gens' = gens /\ cfg' = cfg /\ ecount' = ecount
            /\ tpc' = tpc /\ issued' = issued
            /\ (fpc = "open" => fpc' \in {"open", "ret"})
            /\ (fpc = "ret" => (fpc' = "ret"
                                  \/ (fpc' = "deq" /\ ncalls'[FileConsumer]
                                                        = ncalls[FileConsumer] + 1)))]_vars
    /\ Skipping ~> Completed

\* C29 witness: the first name could not be opened, the words of the second
\* file were counted and the worker has signalled completion
C29_Witness ==
    /\ Len(flist) = 2
    /\ ~flist[1].openable
    /\ flist[2].openable
    /\ TableTotal >= 2
    /\ Completed

\* the lock thread t is about to acquire: <<config, index>>, <<0, 0>> when
\* it is not at a lock acquisition
Wants(t) ==
    IF tpc[t] \in {"ins_lock", "rem_lock"}
    THEN <<tcur[t], StripeOf(gens[tcur[t]], ProbeSlot(gens[tcur[t]], tkey[t], ti[t]))>>
    ELSE IF tpc[t] = "rs_lock" THEN <<told[t], tlocked[t] + 1>>
    ELSE IF tpc[t] = "xt_lock" THEN <<tcur[t], XtNextLock(gens[tcur[t]], tlocked[t])>>
    ELSE <<0, 0>>

\* the thread that holds the lock t is about to acquire (0: t is not blocked)
WaitsFor(t) ==
    LET w == Wants(t) IN IF w[1] = 0 THEN 0 ELSE gens[w[1]].locks[w[2]]

RECURSIVE WaitChain(_, _)
\* the threads reached from t by following WaitsFor at most k times
WaitChain(t, k) ==
    IF k = 0 \/ WaitsFor(t) = 0 THEN {}
    ELSE {WaitsFor(t)} \cup WaitChain(WaitsFor(t), k - 1)

\* the locks thread t holds, as <<config, index>>
HeldBy(t) ==
    {<<g, l>> \in (1..Len(gens)) \X (1..LockCount(sizecap)) :
        gens[g].alive /\ l <= Len(gens[g].locks) /\ gens[g].locks[l] = t}

\* no thread waits, directly or through other waiting threads, for a lock
\* held by itself
NoWaitCycle == \A t \in TableThreads : t \notin WaitChain(t, NTableThreads)

\* C30: the threads never wait for stripe locks in a cycle; insert and
\* remove hold exactly one stripe lock while they look at a slot and none
\* otherwise, in particular none when they call resize; resize and
\* extract_top hold the first locks of one config, in ascending order, and
\* all of them when they read the table.
C30_NoLockCycle ==
    /\ NoWaitCycle
    /\ \A t \in TableThreads :
         /\ tpc[t] \in {"ins_slot", "ins_add", "rem_slot"}
              => HeldBy(t) = {<<tcur[t], StripeOf(gens[tcur[t]], tslot[t])>>}
         /\ tpc[t] \in {"idle", "ins_lock", "ins_retry", "rs_call", "rem_lock", "rem_retry"}
              => HeldBy(t) = {}
         /\ tpc[t] = "rs_lock"
              => (tlocked[t] < Len(gens[told[t]].locks)
                    /\ HeldBy(t) = {told[t]} \X (1..tlocked[t]))
         /\ tpc[t] = "rs_grow"
              => HeldBy(t) = {told[t]} \X (1..Len(gens[told[t]].locks))
         /\ tpc[t] = "xt_lock"
              => (tlocked[t] < Len(gens[tcur[t]].locks)
                    /\ HeldBy(t) = {tcur[t]} \X (1..tlocked[t]))
         /\ tpc[t] = "xt_scan"
              => HeldBy(t) = {tcur[t]} \X (1..Len(gens[tcur[t]].locks))

\* C30 witness: one thread is acquiring the locks of a config in resize, and
\* another, in extract_top, waits for a lock of the same config that the
\* first holds
C30_Witness ==
    \E t, u \in TableThreads :
       /\ tpc[t] = "rs_lock"
       /\ tpc[u] = "xt_lock"
       /\ told[t] = tcur[u]
       /\ WaitsFor(u) = t

\* C31: when no thread calls remove, no step lowers the count a key has in
\* the current config or what contains(k) returns for it: a later
\* contains(k) never returns less than an earlier one, and the publication
\* of a new config neither lowers a count nor makes a present key absent,
\* also when increments run next to the resize.
C31_CountsNeverDecrease ==
    [][\A k \in Keys :
         /\ StoredCount(gens[cfg], k)' >= StoredCount(gens[cfg], k)
         /\ contains(k)' >= contains(k)]_vars

\* the nodes a deq call may still reach from head: head and the nodes linked
\* behind it, without the old dummy head once it is deleted
Reachable ==
    LET c == Chain(head, Len(qnext))
    IN {c[i] : i \in 1..Len(c)} \ (IF \E t \in Consumers : qpc[t] = "d_head" THEN {head} ELSE {})

\* C32: enq and deq never touch a freed node. The node whose next pointer
\* enq writes (tail) is never freed, no node that can be reached from head is
\* freed, and deq reads the next pointer of head and deletes head only when
\* head is not freed yet and is not tail (the node enq writes), and deletes
\* it after it has read its successor.
C32_NoFreedNodeTouched ==
    /\ tail \notin qfreed
    /\ Reachable \cap qfreed = {}
    /\ \A c \in Consumers :
         /\ qpc[c] \in {"d_next", "d_dec", "d_move", "d_free"} => head \notin qfreed
         /\ qpc[c] \in {"d_dec", "d_move", "d_free", "d_head"}
              => (qn[c] # 0 /\ qn[c] \notin qfreed /\ qn[c] = qnext[head])
         /\ qpc[c] \in {"d_next", "d_dec", "d_move", "d_free"} => head # tail
         /\ qpc[c] = "d_head" => head \in qfreed
    /\ \A n \in qfreed : qnext[n] # 0

\* C32 witness: the queue holds one item; a consumer has taken it and is
\* about to delete the dummy head while a producer is about to write the
\* next pointer of the node behind it
C32_Witness ==
    \E p \in Producers, c \in Consumers :
       /\ qpc[p] = "e_link"
       /\ qpc[c] = "d_free"
       /\ qnext[head] = tail
       /\ qfreed # {}
====
